---- MODULE Spec2Model ----
(***************************************************************************)
(* Model of the turnover worksheet pipeline: the Drive asset uploader      *)
(* (lib/driveUpload.js) and the sheet writer writeToSheet (lib/sheets.js). *)
(* JavaScript values are tagged records so that null, undefined, strings   *)
(* and numbers stay distinct, as they are for === and for the coercions.   *)
(* Money is counted in cents, time in milliseconds.                        *)
(***************************************************************************)
EXTENDS Integers, Sequences, FiniteSets, TLC

\* ---------------------------------------------------------------- bounds
MaxItems == 3
MaxPhotos == 2
MaxWorkItemRows == 40
MaxRuns == 3
MaxSubmissions == 2
MaxBatches == 3
MaxTurns == 2
MaxEdits == 2

\* ------------------------------------------------------- JavaScript values
Null == [t |-> "null"]
Undefined == [t |-> "undefined"]
Str(s) == [t |-> "string", v |-> s]
Num(n) == [t |-> "number", v |-> n]

\* x === y of JavaScript on the tagged values
StrictEq(x, y) == x = y

\* truthiness: null, undefined, '' and 0 are falsy
Truthy(x) ==
  CASE x.t = "null" -> FALSE
    [] x.t = "undefined" -> FALSE
    [] x.t = "string" -> x.v # ""
    [] x.t = "number" -> x.v # 0
    [] OTHER -> TRUE

\* Number(s) for the strings of the model; <<FALSE, 0>> stands for NaN
NumberOfString(s) ==
  CASE s = "" -> <<TRUE, 0>>
    [] s = "3" -> <<TRUE, 3>>
    [] OTHER -> <<FALSE, 0>>

safeNumber(value) ==
  CASE value.t = "number" -> value.v
    [] value.t = "null" -> 0
    [] value.t = "undefined" -> 0
    [] value.t = "string" ->
         IF NumberOfString(value.v)[1] THEN NumberOfString(value.v)[2] ELSE 0
    [] OTHER -> 0

safeString(value) ==
  CASE value.t = "null" -> ""
    [] value.t = "undefined" -> ""
    [] value.t = "string" -> value.v
    [] value.t = "number" -> ToString(value.v)
    [] OTHER -> ""

\* `${value}` of a template literal, and the key of obj[value]
TemplateString(value) ==
  CASE value.t = "null" -> "null"
    [] value.t = "undefined" -> "undefined"
    [] value.t = "string" -> value.v
    [] value.t = "number" -> ToString(value.v)
    [] OTHER -> "[object Object]"

\* a || b on numbers
NumOr(a, b) == IF a # 0 THEN a ELSE b

\* collation rank of the category strings of the model ('' sorts first)
LocaleRank(s) ==
  CASE s = "" -> 0
    [] s = "Clean Up" -> 1
    [] s = "Painting" -> 2
    [] OTHER -> 3

localeCompare(a, b) ==
  IF LocaleRank(a) < LocaleRank(b) THEN -1
  ELSE IF LocaleRank(a) > LocaleRank(b) THEN 1 ELSE 0

\* ------------------------------------------------------------ sheet names
\* A work-order number is spelled out as runs of one character each,
\* [ch |-> character, n |-> how many]; "9" stands for a decimal digit.
RECURSIVE Normalize(_)
Normalize(runs) ==
  IF Len(runs) < 2 THEN runs
  ELSE LET rest == Normalize(Tail(runs))
       IN IF Head(runs).ch = Head(rest).ch
          THEN << [ch |-> Head(runs).ch, n |-> Head(runs).n + Head(rest).n] >>
               \o Tail(rest)
          ELSE << Head(runs) >> \o rest

Text(runs) == [t |-> "string", runs |-> Normalize(runs)]

RECURSIVE TextLen(_)
TextLen(runs) == IF runs = <<>> THEN 0 ELSE Head(runs).n + TextLen(Tail(runs))

\* the characters of the class ['*?:/\\[\]]
IllegalChars == {"'", "*", "?", ":", "/", "\\", "[", "]"}
WhiteSpace == {" "}
SHEET_NAME_MAX == 100

\* name.replace(/['*?:/\\[\]]/g, '-') of a class that misses the brackets
ReplaceIllegal_noBrackets(runs) ==
  Normalize([k \in 1..Len(runs) |->
               [ch |-> IF runs[k].ch \in IllegalChars \ {"[", "]"}
                       THEN "-" ELSE runs[k].ch,
                n |-> runs[k].n]])

\* name.replace(/['*?:/\\[\]]/g, '-')
ReplaceIllegal(runs) ==
  Normalize([k \in 1..Len(runs) |->
               [ch |-> IF runs[k].ch \in IllegalChars THEN "-" ELSE runs[k].ch,
                n |-> runs[k].n]])

\* String.prototype.trim
RECURSIVE TrimStart(_)
TrimStart(runs) ==
  IF runs # <<>> /\ Head(runs).ch \in WhiteSpace THEN TrimStart(Tail(runs))
  ELSE runs
RECURSIVE TrimEnd(_)
TrimEnd(runs) ==
  IF runs # <<>> /\ runs[Len(runs)].ch \in WhiteSpace
  THEN TrimEnd(SubSeq(runs, 1, Len(runs) - 1))
  ELSE runs
Trim(runs) == TrimEnd(TrimStart(runs))

\* substring(0, n)
RECURSIVE Substring(_, _)
Substring(runs, n) ==
  IF runs = <<>> \/ n <= 0 THEN <<>>
  ELSE IF Head(runs).n <= n
       THEN << Head(runs) >> \o Substring(Tail(runs), n - Head(runs).n)
       ELSE << [ch |-> Head(runs).ch, n |-> n] >>

\* `WO-${Date.now()}`: Date.now() prints as 13 digits
DefaultSheetName ==
  Text(<< [ch |-> "W", n |-> 1], [ch |-> "O", n |-> 1], [ch |-> "-", n |-> 1],
          [ch |-> "9", n |-> 13] >>)

sanitizeSheetName(name) ==
  IF name.t # "string" \/ TextLen(name.runs) = 0
  THEN DefaultSheetName
  ELSE LET trimmed == Trim(ReplaceIllegal(name.runs))
           sanitized == IF TextLen(trimmed) > SHEET_NAME_MAX
                        THEN Substring(trimmed, SHEET_NAME_MAX)
                        ELSE trimmed
       IN IF TextLen(sanitized) = 0 THEN DefaultSheetName ELSE Text(sanitized)

\* ---------------------------------------------------------- pricing catalog
PRICING_CATALOG ==
  [c \in {"Painting", "Doors & Windows", "Other", "Clean Up"} |->
     CASE c = "Painting" ->
            << [item |-> "Clean Walls", description |-> "Clean", unit |-> "SF",
                pricePerUnit |-> 15, materialsCost |-> FALSE],
               [item |-> "Patch Hole", description |-> "Install", unit |-> "SF",
                pricePerUnit |-> 1550, materialsCost |-> FALSE] >>
       [] c = "Doors & Windows" ->
            << [item |-> "Remove and Install Door Hardware",
                description |-> "Remove & Install", unit |-> "EA",
                pricePerUnit |-> 4500, materialsCost |-> TRUE] >>
       [] c = "Other" ->
            << [item |-> "Countertop Butcherblock",
                description |-> "Remove & Install", unit |-> "SF",
                pricePerUnit |-> 3000, materialsCost |-> FALSE],
               [item |-> "Countertop Butcherblock", description |-> "Refinish",
                unit |-> "SF", pricePerUnit |-> 600, materialsCost |-> FALSE] >>
       [] OTHER ->
            << [item |-> "Oven", description |-> "Clean", unit |-> "EA",
                pricePerUnit |-> 4500, materialsCost |-> FALSE] >>]

\* keys every object literal inherits from Object.prototype: the catalog
\* answers them with a value that is no array
ObjectPrototypeKeys == {"constructor", "toString"}

NoPricing == [item |-> "", description |-> "", unit |-> "",
              pricePerUnit |-> 0, materialsCost |-> FALSE, found |-> FALSE,
              threw |-> FALSE]

\* the entry found, with found |-> TRUE, or NoPricing for null / undefined;
\* threw |-> TRUE when categoryItems.find is not a function
findPricing(category, item, description) ==
  IF TemplateString(category) \in ObjectPrototypeKeys
  THEN [NoPricing EXCEPT !.threw = TRUE]
  ELSE IF category.t # "string" \/ category.v \notin DOMAIN PRICING_CATALOG
  THEN NoPricing
  ELSE LET categoryItems == PRICING_CATALOG[category.v]
           hits == {k \in 1..Len(categoryItems) :
                      /\ StrictEq(Str(categoryItems[k].item), item)
                      /\ (~Truthy(description)
                            \/ StrictEq(Str(categoryItems[k].description), description))}
       IN IF hits = {} THEN NoPricing
          ELSE LET k == CHOOSE h \in hits : \A g \in hits : h <= g
               IN [item |-> categoryItems[k].item,
                   description |-> categoryItems[k].description,
                   unit |-> categoryItems[k].unit,
                   pricePerUnit |-> categoryItems[k].pricePerUnit,
                   materialsCost |-> categoryItems[k].materialsCost,
                   found |-> TRUE, threw |-> FALSE]

getDefaultPrice(category, item, description) ==
  LET pricing == findPricing(category, item, description)
  IN IF pricing.found THEN pricing.pricePerUnit ELSE 0

requiresMaterialsCost(category, item, description) ==
  LET pricing == findPricing(category, item, description)
  IN IF pricing.found THEN pricing.materialsCost = TRUE ELSE FALSE

\* ------------------------------------------------------ line-item table
HEADER_ROW == 7
HEADER_ROW_IDX == HEADER_ROW - 1

\* structuredData.workItems without its null / undefined entries
FilterItems(raw) == SelectSeq(raw, LAMBDA it : it.t = "object")

\* a sort that puts an item in front of its equals
RECURSIVE InsertByCategory_unstable(_, _)
InsertByCategory_unstable(sorted, x) ==
  IF sorted = <<>> THEN <<x>>
  ELSE IF localeCompare(safeString(x.category),
                        safeString(sorted[Len(sorted)].category)) > 0
       THEN Append(sorted, x)
       ELSE Append(InsertByCategory_unstable(SubSeq(sorted, 1, Len(sorted) - 1), x),
                   sorted[Len(sorted)])

\* insert x behind every element that does not compare greater (stable)
RECURSIVE InsertByCategory(_, _)
InsertByCategory(sorted, x) ==
  IF sorted = <<>> THEN <<x>>
  ELSE IF localeCompare(safeString(x.category),
                        safeString(sorted[Len(sorted)].category)) >= 0
       THEN Append(sorted, x)
       ELSE Append(InsertByCategory(SubSeq(sorted, 1, Len(sorted) - 1), x),
                   sorted[Len(sorted)])

RECURSIVE SortFrom(_, _)
SortFrom(sorted, rest) ==
  IF rest = <<>> THEN sorted
  ELSE SortFrom(InsertByCategory(sorted, Head(rest)), Tail(rest))

\* [...workItems].sort((a, b) => safeString(a.category).localeCompare(...))
sortedWorkItems(workItems) == SortFrom(<<>>, workItems)

itemTotal(item) ==
  NumOr(safeNumber(item.total),
        safeNumber(item.multiplier) * 1 * safeNumber(item.pricePerUnit))

workItemRow(item) ==
  << safeString(item.category), safeString(item.item),
     safeString(item.description), safeString(item.unit),
     safeNumber(item.multiplier), 1, safeNumber(item.pricePerUnit),
     itemTotal(item), safeString(item.notes) >>

workItemRows(sorted) == [k \in 1..Len(sorted) |-> workItemRow(sorted[k])]

RECURSIVE SumTotals(_)
SumTotals(sorted) ==
  IF sorted = <<>> THEN 0
  ELSE NumOr(safeNumber(Head(sorted).total),
             safeNumber(Head(sorted).multiplier)
               * safeNumber(Head(sorted).pricePerUnit))
       + SumTotals(Tail(sorted))

grandTotal(sorted) == SumTotals(sorted)

dataStartRow == HEADER_ROW + 1
dataEndRow(n) == dataStartRow + n - 1
totalRowNum(n) == IF n > 0 THEN dataEndRow(n) + 1 ELSE HEADER_ROW + 1

\* the loop of the category groups, from index i (0-based) with the open
\* run starting at startIdx; a merge is <<startRowIndex, endRowIndex>>
RECURSIVE MergeLoop(_, _, _, _, _)
MergeLoop(sorted, i, currentCategory, startIdx, acc) ==
  IF i > Len(sorted) THEN acc
  ELSE LET itemCategory == IF i < Len(sorted) THEN sorted[i + 1].category
                           ELSE Null
       IN IF ~StrictEq(itemCategory, currentCategory)
          THEN MergeLoop(sorted, i + 1, itemCategory, i,
                 IF i - startIdx > 1
                 THEN Append(acc, << HEADER_ROW_IDX + 1 + startIdx,
                                     HEADER_ROW_IDX + 1 + i >>)
                 ELSE acc)
          ELSE MergeLoop(sorted, i + 1, currentCategory, startIdx, acc)

categoryMerges(sorted) ==
  IF Len(sorted) > 0
  THEN MergeLoop(sorted, 1, sorted[1].category, 0, <<>>)
  ELSE <<>>

\* ------------------------------------------------------------- the inputs
WorkOrder == "WO-1042"

Item(category, item, description, multiplier, pricePerUnit, total) ==
  [t |-> "object", category |-> category, item |-> Str(item),
   description |-> Str(description), unit |-> Str("EA"),
   multiplier |-> Num(multiplier), pricePerUnit |-> Num(pricePerUnit),
   total |-> total, notes |-> Str("")]

\* work items as the extraction step or a caller may send them
ItemPool ==
  { Item(Str("Painting"), "Clean Walls", "Clean", 100, 15, Undefined),
    Item(Str("Painting"), "Patch Hole", "Install", 2, 1550, Num(3000)),
    Item(Str("Clean Up"), "Oven", "Clean", 1, 4500, Num(4500)),
    Item(Str("Painting"), "Mural", "Paint", 1, 500, Undefined),
    Item(Null, "Haul away", "Other", 1, 0, Undefined),
    Item(Str(""), "Misc", "Other", 2, 0, Undefined),
    Item(Undefined, "Touch up", "Other", 3, 0, Undefined),
    Null }

\* the items of a submission that also carries a sketch and photos
SmallItemPool ==
  { Item(Str("Painting"), "Clean Walls", "Clean", 100, 15, Undefined),
    Item(Str("Clean Up"), "Oven", "Clean", 1, 4500, Num(4500)) }

PhotoPool ==
  { [name |-> Str("kitchen.jpg"), caption |-> Str("Kitchen wall")],
    [name |-> Str("bath.jpg"), caption |-> Undefined] }

SeqsUpTo(S, n) == UNION {[1..k -> S] : k \in 0..n}

\* the arguments of writeToSheet besides the content, and what it runs
\* against: process.env.GOOGLE_SHEETS_ID and the spreadsheet behind it
Obj == [t |-> "object"]
GoodEnv ==
  [data |-> Obj, structuredData |-> Obj, GOOGLE_SHEETS_ID |-> Str("1AbC"),
   accessToken |-> Str("ya29.token"), spreadsheetExists |-> TRUE]
Environments ==
  [data : {Obj, Null}, structuredData : {Obj, Undefined, Str("WO-1042")},
   GOOGLE_SHEETS_ID : {Str("1AbC"), Undefined},
   accessToken : {Str("ya29.token"), Undefined},
   spreadsheetExists : BOOLEAN]

\* the checks of writeToSheet in front of its try; "" when they pass
ArgumentError_noSheetsIdCheck(e) ==
  IF ~Truthy(e.data) THEN "No data provided to writeToSheet"
  ELSE IF ~Truthy(e.structuredData) \/ e.structuredData.t # "object"
       THEN "Invalid structuredData: must be an object"
       ELSE ""

ArgumentError(e) ==
  IF ~Truthy(e.data) THEN "No data provided to writeToSheet"
  ELSE IF ~Truthy(e.structuredData) \/ e.structuredData.t # "object"
       THEN "Invalid structuredData: must be an object"
       ELSE IF ~Truthy(e.GOOGLE_SHEETS_ID)
            THEN "Missing GOOGLE_SHEETS_ID environment variable"
            ELSE ""

\* errors the Google API client rejects a call with
PermissionError == [code |-> 403, message |-> "The caller does not have permission"]
ApiErrors ==
  { PermissionError,
    [code |-> 401, message |-> "Invalid Credentials"],
    [code |-> 500, message |-> "Internal error encountered"] }
NotFoundError == [code |-> 404, message |-> "Requested entity was not found."]
DuplicateTitleError ==
  [code |-> 400, message |-> "A sheet with that name already exists"]
NoTokenError ==
  [code |-> 0, message |-> "No access token provided. User must be logged in."]

\* the error the catch of writeToSheet throws for a caught error
CatchMessage(err) ==
  CASE err.code = 403 ->
         "Permission denied. Make sure you have Editor access to the spreadsheet."
    [] err.code = 404 ->
         "Spreadsheet not found. Check that GOOGLE_SHEETS_ID is correct."
    [] err.code = 401 ->
         "Authentication expired. Please sign out and sign in again."
    [] OTHER -> "Failed to write to sheet: " \o err.message

\* ------------------------------------------------------------ the uploader
DELAY_BETWEEN_UPLOADS == 500
UPLOAD_TIMEOUT == 30000

\* what Drive does with one transfer: it completes after d ms, it is
\* rejected after d ms, or it never answers
Transfers ==
  { [kind |-> "ok", d |-> 1200], [kind |-> "error", d |-> 300],
    [kind |-> "never", d |-> 0] }
NoTransfer == [kind |-> "none", d |-> 0]

\* the upload awaited without the timer
Race_noTimer(transfer) == transfer

\* Promise.race([uploadWithTimeout(), timeoutPromise])
Race(transfer) ==
  IF transfer.kind = "never" \/ transfer.d > UPLOAD_TIMEOUT
  THEN [kind |-> "timeout", d |-> UPLOAD_TIMEOUT]
  ELSE transfer

DirectUrl(fileId) ==
  Str("https://drive.google.com/uc?export=view&id=" \o ToString(fileId))

PhotoFileName(workOrderNumber, idx, photo) ==
  Str(workOrderNumber \o "_" \o ToString(idx) \o "_" \o safeString(photo.name))

\* the entry pushed after a successful race
SuccessEntry(workOrderNumber, idx, photo, fileId) ==
  [fileId |-> Num(fileId), directUrl |-> DirectUrl(fileId),
   fileName |-> PhotoFileName(workOrderNumber, idx, photo),
   originalName |-> photo.name,
   caption |-> IF Truthy(photo.caption) THEN photo.caption ELSE Str(""),
   error |-> Undefined]

\* the entry pushed by the catch of one photo
ErrorEntry(photo, message) ==
  [fileId |-> Undefined, directUrl |-> Undefined, fileName |-> photo.name,
   originalName |-> Undefined, caption |-> Undefined, error |-> Str(message)]

ErrorMessage(outcome) ==
  IF outcome.kind = "timeout" THEN "Photo upload timeout (30s)"
  ELSE "Drive request failed"

\* a catch that only logs the failure
PushResult_dropFailed(res, workOrderNumber, idx, photo, outcome, fileId) ==
  IF outcome.kind = "ok"
  THEN Append(res, SuccessEntry(workOrderNumber, idx, photo, fileId))
  ELSE res

\* results after the try / catch of iteration idx (1-based)
PushResult(res, workOrderNumber, idx, photo, outcome, fileId) ==
  IF outcome.kind = "ok"
  THEN Append(res, SuccessEntry(workOrderNumber, idx, photo, fileId))
  ELSE Append(res, ErrorEntry(photo, ErrorMessage(outcome)))

\* the pacing delay is awaited inside the try, behind results.push
DelayAfter(outcome, idx, n) == outcome.kind = "ok" /\ idx < n

\* -------------------------------------------------------------- the state
VARIABLES
  sketch,        \* data.sketch is given
  photos,        \* data.photos
  workItemsIn,   \* structuredData.workItems
  pc,            \* position of writeToSheet
  now,           \* the clock, ms
  oldSheet,      \* a sheet named like the work order exists
  newSheet,      \* the sheet of this submission exists
  sketchResult,  \* result of uploadSketchToDrive, Null without one
  sketchOutcome, \* how the race of the sketch settled, Null before
  inflight,      \* the transfer the pending race waits for
  upc,           \* position of uploadPhotosToDrive
  i,             \* its loop index, 0-based
  results,       \* its results array
  startT,        \* start time of every attempt
  endT,          \* end time of every attempt
  driveLog,      \* what Drive did with every transfer of the batch
  nextFileId,    \* file ids Drive hands out
  photoResults,  \* photoResults of writeToSheet
  values,        \* cell values of the new sheet, <<row, column>> -> value
  merges,        \* merged ranges <<startRowIndex, endRowIndex, startCol, endCol>>
  heights,       \* pixel sizes set on rows, row -> px
  g,             \* index of the gallery loop, 0-based
  calls,         \* the Sheets API calls made, in order
  env,           \* data, structuredData, GOOGLE_SHEETS_ID, the token, the spreadsheet
  error,         \* message of the error writeToSheet threw, "" without one
  probe,         \* arguments of a helper called on its own
  retval,        \* what that helper returned, Null before the call
  book,          \* the sheets of the spreadsheet, sheetId -> sheet
  subs,          \* the submissions running against the spreadsheet
  nextSheetId,   \* sheet ids the spreadsheet hands out
  api,           \* one request to /api/submit: the request, the handler's position, the response
  drive,         \* the folders and files of the user's Drive
  batch,         \* the upload batch that runs: its number, work order, position, folder ids
  home,          \* the useState fields of the page (pages/index.js)
  fetching,      \* the request a handler of the page awaits
  preview,       \* the state of ScopePreview, debounceRef included
  requests,      \* the debounce timers and /api/translate-scope requests in flight
  typed          \* how many texts the user has typed into the scope editor

vars == << sketch, photos, workItemsIn, pc, now, oldSheet, newSheet,
           sketchResult, sketchOutcome, inflight, upc, i, results, startT, endT, driveLog,
           nextFileId, photoResults, values, merges, heights, g, calls,
           env, error, probe, retval, book, subs, nextSheetId, api, drive, batch,
           home, fetching, preview, requests, typed >>

inputVars == << sketch, photos, workItemsIn, env >>
pureVars == << probe, retval >>
bookVars == << book, subs, nextSheetId >>
driveVars == << drive, batch >>
pageVars == << home, fetching >>
editorVars == << preview, requests, typed >>
appVars == << api, driveVars, pageVars, editorVars >>
uploadVars == << inflight, upc, i, results, startT, endT, driveLog >>
sheetVars == << values, merges, heights, g >>

NoProbe == [fn |-> "none"]
NoApi == [hpc |-> "none"]
EmptyDrive == [folders |-> <<>>, files |-> <<>>]
NoBatch == [n |-> 0, fpc |-> "idle"]

\* a scope text: '' (by "none"), the text /api/generate-scopes wrote, the
\* n-th text the user typed, or the translation of the n-th typed text
EmptyScope == [by |-> "none", n |-> 0]
GeneratedScope == [by |-> "generate-scopes", n |-> 0]
TypedScope(n) == [by |-> "user", n |-> n]
TranslatedScope(text) == [by |-> "translate-scope", n |-> text.n]

\* text.trim() is empty
Blank(text) == text.by = "none"

initialStructuredData == [workOrderNumber |-> "", workItems |-> 0]

\* the useState initial values of Home
initialHome ==
  [ conversationHistory |-> <<>>,
    structuredData      |-> initialStructuredData,
    englishScope        |-> EmptyScope,
    spanishScope        |-> EmptyScope,
    isProcessing        |-> FALSE,
    isComplete          |-> FALSE,
    scopesGenerated     |-> FALSE,
    isSubmitted         |-> FALSE,
    submittedSheetUrl   |-> "",
    currentStep         |-> "input",
    enableTTS           |-> TRUE,
    inputLanguage       |-> "en",
    activeTab           |-> "data",
    sketch              |-> "null",
    photos              |-> <<>> ]

NoFetch == [kind |-> "none"]
NoTimer == [text |-> EmptyScope, targetLanguage |-> "none"]

\* the useState and useRef initial values of ScopePreview
FreshPreview ==
  [ isTranslating |-> FALSE, activeEdit |-> "null", isEditMode |-> FALSE,
    debounceRef |-> NoTimer ]

\* the page as it loads, nothing typed and nothing in flight
InitHome ==
  /\ home = initialHome
  /\ fetching = NoFetch
  /\ preview = FreshPreview
  /\ requests = {}
  /\ typed = 0

\* writeToSheet and the uploader before their first step
InitIdle ==
  /\ pc = "start"
  /\ error = ""
  /\ retval = Null
  /\ now = 0
  /\ oldSheet \in BOOLEAN
  /\ newSheet = FALSE
  /\ sketchResult = Null
  /\ sketchOutcome = Null
  /\ inflight = NoTransfer
  /\ upc = "idle"
  /\ i = 0
  /\ results = <<>>
  /\ startT = <<>>
  /\ endT = <<>>
  /\ driveLog = <<>>
  /\ nextFileId = 1
  /\ photoResults = <<>>
  /\ values = <<>>
  /\ merges = {}
  /\ heights = <<>>
  /\ g = 0
  /\ calls = <<>>

\* nothing around writeToSheet is running
InitApp ==
  /\ api = NoApi
  /\ drive = EmptyDrive
  /\ batch = NoBatch
  /\ InitHome

\* the spreadsheet holds no sheet of a work order, no submission runs
InitCommon ==
  /\ book = <<>>
  /\ subs = <<>>
  /\ nextSheetId = 1
  /\ InitIdle

\* a submission with a sketch, photos and a few priced items
Init ==
  /\ InitApp
  /\ sketch \in BOOLEAN
  /\ photos \in SeqsUpTo(PhotoPool, MaxPhotos)
  /\ workItemsIn \in SeqsUpTo(SmallItemPool, MaxItems)
  /\ env \in Environments
  /\ probe = NoProbe
  /\ InitCommon

\* the same submission with at most one work item: the items play no part in
\* the upload phase
InitLive ==
  /\ InitApp
  /\ sketch \in BOOLEAN
  /\ photos \in SeqsUpTo(PhotoPool, MaxPhotos)
  /\ workItemsIn \in SeqsUpTo(SmallItemPool, 1)
  /\ env = GoodEnv
  /\ probe = NoProbe
  /\ InitCommon

\* a submission of work items only
InitTable ==
  /\ InitApp
  /\ sketch = FALSE
  /\ photos = <<>>
  /\ workItemsIn \in SeqsUpTo(ItemPool, MaxItems)
  /\ env = GoodEnv
  /\ probe = NoProbe
  /\ InitCommon

\* --------------------------------------------------------- sheet helpers
RowCells(r, tuple) == [c \in {<<r, k>> : k \in 1..Len(tuple)} |-> tuple[c[2]]]
Cell(r, k, v) == [c \in {<<r, k>>} |-> v]
Put(old, new) ==
  [c \in DOMAIN old \cup DOMAIN new |-> IF c \in DOMAIN new THEN new[c] ELSE old[c]]
SetHeight(old, r, px) ==
  [x \in DOMAIN old \cup {r} |-> IF x = r THEN px ELSE old[x]]

Image(url) == "=IMAGE(\"" \o TemplateString(url) \o "\", 1)"

DEFAULT_ROW_HEIGHT == 21

\* rowHeightRequests, row (1-based) -> pixelSize
RowHeightRequests ==
  [r \in {1, 2, 3, 5, 6} |->
     CASE r \in {1, 2} -> DEFAULT_ROW_HEIGHT * 2
       [] r \in {3, 5} -> DEFAULT_ROW_HEIGHT
       [] OTHER -> DEFAULT_ROW_HEIGHT * 15]

\* mergeRequests of the header block
MergeRequests ==
  { <<0, 1, 1, 3>>, <<0, 1, 4, 9>>, <<1, 2, 1, 3>>, <<1, 2, 4, 9>>,
    <<2, 3, 0, 4>>, <<2, 3, 4, 9>>, <<3, 4, 0, 4>>, <<3, 4, 4, 9>>,
    <<4, 5, 0, 9>>, <<5, 6, 0, 9>> }

\* cellData of the header block; the scope texts are plain text
CellData(sketchRes) ==
  LET fixed ==
        (<<1, 1>> :> "WO#") @@ (<<1, 2>> :> WorkOrder) @@ (<<1, 4>> :> "Unit #")
        @@ (<<1, 5>> :> "12B") @@ (<<2, 1>> :> "Address")
        @@ (<<2, 2>> :> "1 Main St") @@ (<<2, 4>> :> "Unit SQ FT")
        @@ (<<2, 5>> :> "850          Unit Layout: 2BR")
        @@ (<<3, 1>> :> "Overview") @@ (<<3, 5>> :> "Spanish")
        @@ (<<4, 1>> :> "Paint the walls") @@ (<<4, 5>> :> "Pintar las paredes")
        @@ (<<5, 1>> :> "Unit Layout")
  IN IF sketchRes.t = "object" /\ Truthy(sketchRes.directUrl)
     THEN Put(fixed, Cell(6, 1, Image(sketchRes.directUrl)))
     ELSE fixed

TableHeaders ==
  << "Category", "Item", "Description", "Unit", "Amount", "Multiplier",
     "Price Per Unit", "Total", "Notes" >>

totalRow(sorted) == << "", "", "", "", "", "", "TOTAL:", grandTotal(sorted), "" >>

\* tableData with the totals row pushed inside the guard of the data rows
TableData_totalsWithRows(sorted) ==
  LET rows == workItemRows(sorted)
      n == Len(rows)
      RECURSIVE DataCells(_)
      DataCells(k) ==
        IF k = 0 THEN <<>>
        ELSE Put(DataCells(k - 1), RowCells(dataStartRow + k - 1, rows[k]))
  IN IF n > 0
     THEN Put(Put(RowCells(HEADER_ROW, TableHeaders), DataCells(n)),
              RowCells(totalRowNum(n), totalRow(sorted)))
     ELSE RowCells(HEADER_ROW, TableHeaders)

\* tableData: header row, the data rows, the totals row
TableData(sorted) ==
  LET rows == workItemRows(sorted)
      n == Len(rows)
      RECURSIVE DataCells(_)
      DataCells(k) ==
        IF k = 0 THEN <<>>
        ELSE Put(DataCells(k - 1), RowCells(dataStartRow + k - 1, rows[k]))
  IN Put(Put(RowCells(HEADER_ROW, TableHeaders), DataCells(n)),
         RowCells(totalRowNum(n), totalRow(sorted)))

\* the gallery built from every entry of photoResults
successfulPhotos_all(res) == res

\* photoResults.filter(p => !p.error && p.directUrl)
successfulPhotos(res) ==
  SelectSeq(res, LAMBDA p : ~Truthy(p.error) /\ Truthy(p.directUrl))

\* the page-break spacer
PAGE_HEIGHT_PX == 684
HEADER_HEIGHT == 42 + 42 + 21 + 80 + 21 + 315 + 21
WORK_ITEM_ROW_HEIGHT == 25
TOTAL_ROW_HEIGHT == 25
PHOTO_ROW_HEIGHT == 432
NOTES_ROW_HEIGHT == 50

estimatedContentHeight(workItemCount) ==
  HEADER_HEIGHT + (workItemCount * WORK_ITEM_ROW_HEIGHT) + TOTAL_ROW_HEIGHT

\* the spacer taken from the whole content height, not from what the last
\* page holds
pageBreakSpacer_noModulo(workItemCount) ==
  LET spacer == PAGE_HEIGHT_PX - estimatedContentHeight(workItemCount) + 20
  IN IF spacer > 50 THEN spacer ELSE 50

pageBreakSpacer(workItemCount) ==
  LET usedOnPage1 == estimatedContentHeight(workItemCount) % PAGE_HEIGHT_PX
      spacer == PAGE_HEIGHT_PX - usedOnPage1 + 20
  IN IF spacer > 50 THEN spacer ELSE 50

pageBreakRow(n) == totalRowNum(n) + 2
photoHeaderRow(n) == pageBreakRow(n) + 1
\* currentRow at the top of gallery iteration k (0-based)
photoRow(n, k) == photoHeaderRow(n) + 1 + 2 * k
notesRow(n, k) == photoRow(n, k) + 1

\* photos.find(p => p.name === photo.originalName)
RECURSIVE FindByName(_, _)
FindByName(ps, name) ==
  IF ps = <<>> THEN Undefined
  ELSE IF StrictEq(Head(ps).name, name)
       THEN [t |-> "object", caption |-> Head(ps).caption]
       ELSE FindByName(Tail(ps), name)

\* originalPhoto?.caption || photo.caption || ''
captionOf(ps, photo) ==
  LET originalPhoto == FindByName(ps, photo.originalName)
      first == IF originalPhoto.t = "object" THEN originalPhoto.caption
               ELSE Undefined
  IN IF Truthy(first) THEN first
     ELSE IF Truthy(photo.caption) THEN photo.caption ELSE Str("")

\* caption || `Photo ${k + 1} notes:`
notesText(ps, photo, k) ==
  IF Truthy(captionOf(ps, photo)) THEN safeString(captionOf(ps, photo))
  ELSE "Photo " \o ToString(k + 1) \o " notes:"

\* ------------------------------------------------------------- writeToSheet
sortedItems == sortedWorkItems(FilterItems(workItemsIn))
itemCount == Len(sortedItems)

\* the gallery entered for any non-empty result list
AfterTable_anyResult(res) ==
  IF Len(res) > 0 THEN "spacer" ELSE "done"

\* the position behind the table: the gallery, or the return
AfterTable(res) ==
  IF Len(res) > 0 /\ Len(successfulPhotos(res)) > 0 THEN "spacer" ELSE "done"

\* `https://docs.google.com/spreadsheets/d/${spreadsheetId}/edit#gid=${newSheetId}`
SheetUrl(spreadsheetId, newSheetId) ==
  "https://docs.google.com/spreadsheets/d/" \o TemplateString(spreadsheetId)
    \o "/edit#gid=" \o ToString(newSheetId)

\* every entry of photoResults reported, failed ones included
photoUrls_all(res) ==
  [k \in 1..Len(res) |->
     [url |-> res[k].directUrl, fileName |-> res[k].fileName,
      caption |-> res[k].caption]]

\* photoResults.filter(p => !p.error).map(p => ({url, fileName, caption}))
photoUrls(res) ==
  LET kept == SelectSeq(res, LAMBDA p : ~Truthy(p.error))
  IN [k \in 1..Len(kept) |->
        [url |-> kept[k].directUrl, fileName |-> kept[k].fileName,
         caption |-> kept[k].caption]]

\* the object writeToSheet returns
writeToSheetResult ==
  [success |-> TRUE,
   sheetUrl |-> SheetUrl(env.GOOGLE_SHEETS_ID, nextSheetId),
   sheetId |-> nextSheetId,
   sketchUrl |-> IF sketchResult # Null /\ Truthy(sketchResult.directUrl)
                 THEN sketchResult.directUrl ELSE Null,
   photoUrls |-> photoUrls(photoResults)]

\* the checks on data, structuredData and GOOGLE_SHEETS_ID, thrown as they are
CheckArguments ==
  /\ pc = "start"
  /\ IF ArgumentError(env) # ""
     THEN pc' = "threw" /\ error' = ArgumentError(env)
     ELSE pc' = "auth" /\ UNCHANGED error
  /\ UNCHANGED << appVars, inputVars, pureVars, bookVars, uploadVars, sheetVars, now,
                  oldSheet, newSheet, sketchResult, sketchOutcome, nextFileId,
                  photoResults, calls >>

\* getOAuthClient inside the try: without a token it throws into the catch
GetOAuthClient ==
  /\ pc = "auth"
  /\ IF ~Truthy(env.accessToken)
     THEN pc' = "threw" /\ error' = CatchMessage(NoTokenError)
     ELSE pc' = "findSheet" /\ UNCHANGED error
  /\ UNCHANGED << appVars, inputVars, pureVars, bookVars, uploadVars, sheetVars, now,
                  oldSheet, newSheet, sketchResult, sketchOutcome, nextFileId,
                  photoResults, calls >>

\* findSheetByName: spreadsheets.get and the search by title; the get of a
\* spreadsheet that does not exist is answered with 404
FindSheet ==
  /\ pc = "findSheet"
  /\ calls' = Append(calls, "get")
  /\ IF env.spreadsheetExists
     THEN /\ pc' = IF oldSheet THEN "deleteSheet" ELSE "addSheet"
          /\ UNCHANGED error
     ELSE pc' = "threw" /\ error' = CatchMessage(NotFoundError)
  /\ UNCHANGED << appVars, inputVars, pureVars, bookVars, uploadVars, sheetVars, now, oldSheet, newSheet,
                  sketchResult, sketchOutcome, nextFileId, photoResults >>

\* deleteSheet of the existing sheet; a failure is only logged
DeleteSheet ==
  /\ pc = "deleteSheet"
  /\ \E ok \in BOOLEAN : oldSheet' = (oldSheet /\ ~ok)
  /\ pc' = "addSheet"
  /\ calls' = Append(calls, "deleteSheet")
  /\ UNCHANGED << appVars, inputVars, pureVars, bookVars, error, uploadVars, sheetVars, now, newSheet,
                  sketchResult, sketchOutcome, nextFileId, photoResults >>

\* addSheet; a title that is still in use is refused by the API
AddSheet ==
  /\ pc = "addSheet"
  /\ calls' = Append(calls, "addSheet")
  /\ IF oldSheet
     THEN /\ pc' = "threw" /\ error' = CatchMessage(DuplicateTitleError)
          /\ UNCHANGED newSheet
     ELSE pc' = "sketch" /\ newSheet' = TRUE /\ UNCHANGED error
  /\ UNCHANGED << appVars, inputVars, pureVars, bookVars, uploadVars, sheetVars, now, oldSheet,
                  sketchResult, sketchOutcome, nextFileId, photoResults >>

\* no sketch given: uploadSketchToDrive is not called
SkipSketch ==
  /\ pc = "sketch" /\ ~sketch
  /\ pc' = "photos"
  /\ UNCHANGED << appVars, inputVars, pureVars, bookVars, error, uploadVars, sheetVars, now, oldSheet, newSheet,
                  sketchResult, sketchOutcome, nextFileId, photoResults, calls >>

\* uploadSketchToDrive starts its race
StartSketch ==
  /\ pc = "sketch" /\ sketch
  /\ \E tr \in Transfers : inflight' = tr
  /\ pc' = "sketchPending"
  /\ UNCHANGED << appVars, inputVars, pureVars, bookVars, error, upc, i, results, startT, endT, driveLog,
                  sheetVars, now, oldSheet, newSheet, sketchResult, sketchOutcome,
                  nextFileId, photoResults, calls >>

\* the race of the sketch settles; writeToSheet swallows a rejection
EndSketch ==
  /\ pc = "sketchPending"
  /\ Race(inflight).kind # "never"
  /\ now' = now + Race(inflight).d
  /\ IF Race(inflight).kind = "ok"
     THEN /\ sketchResult' = [t |-> "object", directUrl |-> DirectUrl(nextFileId)]
          /\ nextFileId' = nextFileId + 1
     ELSE UNCHANGED << sketchResult, nextFileId >>
  /\ sketchOutcome' = [t |-> "object", transfer |-> inflight.kind,
                        kind |-> Race(inflight).kind, elapsed |-> Race(inflight).d]
  /\ inflight' = NoTransfer
  /\ pc' = "photos"
  /\ UNCHANGED << appVars, inputVars, pureVars, bookVars, error, upc, i, results, startT, endT, driveLog,
                  sheetVars, oldSheet, newSheet, photoResults, calls >>

\* no photos given: uploadPhotosToDrive is not called
SkipPhotos ==
  /\ pc = "photos" /\ Len(photos) = 0
  /\ pc' = "structure"
  /\ UNCHANGED << appVars, inputVars, pureVars, bookVars, error, uploadVars, sheetVars, now, oldSheet, newSheet,
                  sketchResult, sketchOutcome, nextFileId, photoResults, calls >>

\* writeToSheet calls uploadPhotosToDrive
CallUploadPhotos ==
  /\ pc = "photos" /\ Len(photos) > 0
  /\ pc' = "photosPending"
  /\ upc' = "folders"
  /\ UNCHANGED << appVars, inputVars, pureVars, bookVars, error, inflight, i, results, startT, endT, driveLog,
                  sheetVars, now, oldSheet, newSheet, sketchResult, sketchOutcome,
                  nextFileId, photoResults, calls >>

\* the two findOrCreateFolder calls, outside every timeout: they resolve,
\* they throw (the batch rethrows, writeToSheet goes on with no photos),
\* or Drive never answers
ResolveFolders ==
  /\ upc = "folders"
  /\ \E answer \in {"ok", "error", "never"} :
       CASE answer = "ok" -> upc' = "loop" /\ pc' = pc
         [] answer = "error" -> upc' = "threw" /\ pc' = "structure"
         [] OTHER -> upc' = "hung" /\ pc' = pc
  /\ UNCHANGED << appVars, inputVars, pureVars, bookVars, error, inflight, i, results, startT, endT, driveLog,
                  sheetVars, now, oldSheet, newSheet, sketchResult, sketchOutcome,
                  nextFileId, photoResults, calls >>

\* top of one loop iteration: the race of photo i starts
StartAttempt ==
  /\ upc = "loop" /\ i < Len(photos)
  /\ \E tr \in Transfers : inflight' = tr /\ driveLog' = Append(driveLog, tr)
  /\ startT' = Append(startT, now)
  /\ upc' = "pending"
  /\ UNCHANGED << appVars, inputVars, pureVars, bookVars, error, i, results, endT, sheetVars, now, pc, oldSheet,
                  newSheet, sketchResult, sketchOutcome, nextFileId, photoResults, calls >>

\* the race of photo i settles: push, and the delay only behind a success
EndAttempt ==
  /\ upc = "pending"
  /\ Race(inflight).kind # "never"
  /\ now' = now + Race(inflight).d
  /\ endT' = Append(endT, now')
  /\ results' = PushResult(results, WorkOrder, i + 1, photos[i + 1],
                           Race(inflight), nextFileId)
  /\ nextFileId' = IF Race(inflight).kind = "ok" THEN nextFileId + 1 ELSE nextFileId
  /\ inflight' = NoTransfer
  /\ IF DelayAfter(Race(inflight), i + 1, Len(photos))
     THEN upc' = "delay" /\ i' = i
     ELSE upc' = "loop" /\ i' = i + 1
  /\ UNCHANGED << appVars, inputVars, pureVars, bookVars, error, startT, driveLog, sheetVars, pc, oldSheet,
                  newSheet, sketchResult, sketchOutcome, photoResults, calls >>

\* setTimeout(resolve, DELAY_BETWEEN_UPLOADS)
PacingDelay ==
  /\ upc = "delay"
  /\ now' = now + DELAY_BETWEEN_UPLOADS
  /\ i' = i + 1
  /\ upc' = "loop"
  /\ UNCHANGED << appVars, inputVars, pureVars, bookVars, error, inflight, results, startT, endT, driveLog,
                  sheetVars, pc, oldSheet, newSheet, sketchResult, sketchOutcome, nextFileId,
                  photoResults, calls >>

\* return results
ReturnResults ==
  /\ upc = "loop" /\ i = Len(photos)
  /\ upc' = "returned"
  /\ photoResults' = results
  /\ pc' = "structure"
  /\ UNCHANGED << appVars, inputVars, pureVars, bookVars, error, inflight, i, results, startT, endT, driveLog,
                  sheetVars, now, oldSheet, newSheet, sketchResult, sketchOutcome,
                  nextFileId, calls >>

\* batchUpdate of rowHeightRequests and mergeRequests
Structure ==
  /\ pc = "structure"
  /\ heights' = Put(heights, RowHeightRequests)
  /\ merges' = merges \cup MergeRequests
  /\ calls' = Append(calls, "structure")
  /\ pc' = "headerValues"
  /\ UNCHANGED << appVars, inputVars, pureVars, bookVars, error, uploadVars, values, g, now, oldSheet, newSheet,
                  sketchResult, sketchOutcome, nextFileId, photoResults >>

\* values.batchUpdate of cellData
HeaderValues ==
  /\ pc = "headerValues"
  /\ values' = Put(values, CellData(sketchResult))
  /\ calls' = Append(calls, "headerValues")
  /\ pc' = "headerFormat"
  /\ UNCHANGED << appVars, inputVars, pureVars, bookVars, error, uploadVars, merges, heights, g, now, oldSheet,
                  newSheet, sketchResult, sketchOutcome, nextFileId, photoResults >>

\* batchUpdate of formatRequests
HeaderFormat ==
  /\ pc = "headerFormat"
  /\ calls' = Append(calls, "headerFormat")
  /\ pc' = "tableValues"
  /\ UNCHANGED << appVars, inputVars, pureVars, bookVars, error, uploadVars, sheetVars, now, oldSheet, newSheet,
                  sketchResult, sketchOutcome, nextFileId, photoResults >>

\* filter, sort, build the rows and the totals row, values.batchUpdate
TableValues ==
  /\ pc = "tableValues"
  /\ values' = Put(values, TableData(sortedItems))
  /\ calls' = Append(calls, "tableValues")
  /\ pc' = "tableFormat"
  /\ UNCHANGED << appVars, inputVars, pureVars, bookVars, error, uploadVars, merges, heights, g, now, oldSheet,
                  newSheet, sketchResult, sketchOutcome, nextFileId, photoResults >>

\* batchUpdate of tableFormatRequests, the category merges at their end
TableFormat ==
  /\ pc = "tableFormat"
  /\ merges' = merges \cup
       { << categoryMerges(sortedItems)[k][1], categoryMerges(sortedItems)[k][2], 0, 1 >> :
           k \in 1..Len(categoryMerges(sortedItems)) }
  /\ calls' = Append(calls, "tableFormat")
  /\ pc' = AfterTable(photoResults)
  /\ UNCHANGED << appVars, inputVars, pureVars, bookVars, error, uploadVars, values, heights, g, now, oldSheet,
                  newSheet, sketchResult, sketchOutcome, nextFileId, photoResults >>

\* the spacer row behind the totals row
Spacer ==
  /\ pc = "spacer"
  /\ heights' = SetHeight(heights, pageBreakRow(itemCount), pageBreakSpacer(itemCount))
  /\ calls' = Append(calls, "spacer")
  /\ pc' = "galleryHeaderValue"
  /\ UNCHANGED << appVars, inputVars, pureVars, bookVars, error, uploadVars, values, merges, g, now, oldSheet,
                  newSheet, sketchResult, sketchOutcome, nextFileId, photoResults >>

\* values.update of the 'Site Photos' header
GalleryHeaderValue ==
  /\ pc = "galleryHeaderValue"
  /\ values' = Put(values, Cell(photoHeaderRow(itemCount), 1, "Site Photos"))
  /\ calls' = Append(calls, "galleryHeaderValue")
  /\ pc' = "galleryHeaderFormat"
  /\ UNCHANGED << appVars, inputVars, pureVars, bookVars, error, uploadVars, merges, heights, g, now, oldSheet,
                  newSheet, sketchResult, sketchOutcome, nextFileId, photoResults >>

\* merge, format and size the gallery header
GalleryHeaderFormat ==
  /\ pc = "galleryHeaderFormat"
  /\ merges' = merges \cup
       {<< photoHeaderRow(itemCount) - 1, photoHeaderRow(itemCount), 0, 9 >>}
  /\ heights' = SetHeight(heights, photoHeaderRow(itemCount), 30)
  /\ calls' = Append(calls, "galleryHeaderFormat")
  /\ g' = 0
  /\ pc' = "photoValues"
  /\ UNCHANGED << appVars, inputVars, pureVars, bookVars, error, uploadVars, values, now, oldSheet, newSheet,
                  sketchResult, sketchOutcome, nextFileId, photoResults >>

\* gallery iteration g: the IMAGE formula and the notes
PhotoValues ==
  /\ pc = "photoValues"
  /\ LET photo == successfulPhotos(photoResults)[g + 1]
     IN values' =
          Put(values,
              Put(Cell(photoRow(itemCount, g), 1, Image(photo.directUrl)),
                  Cell(notesRow(itemCount, g), 1, notesText(photos, photo, g))))
  /\ calls' = Append(calls, "photoValues")
  /\ pc' = "photoFormat"
  /\ UNCHANGED << appVars, inputVars, pureVars, bookVars, error, uploadVars, merges, heights, g, now, oldSheet,
                  newSheet, sketchResult, sketchOutcome, nextFileId, photoResults >>

\* gallery iteration g: merges and row sizes, then currentRow += 2
PhotoFormat ==
  /\ pc = "photoFormat"
  /\ merges' = merges \cup
       { << photoRow(itemCount, g) - 1, photoRow(itemCount, g), 0, 9 >>,
         << notesRow(itemCount, g) - 1, notesRow(itemCount, g), 0, 9 >> }
  /\ heights' = SetHeight(SetHeight(heights, photoRow(itemCount, g), PHOTO_ROW_HEIGHT),
                          notesRow(itemCount, g), NOTES_ROW_HEIGHT)
  /\ calls' = Append(calls, "photoFormat")
  /\ g' = g + 1
  /\ pc' = IF g + 1 < Len(successfulPhotos(photoResults)) THEN "photoValues" ELSE "done"
  /\ UNCHANGED << appVars, inputVars, pureVars, bookVars, error, uploadVars, values, now, oldSheet, newSheet,
                  sketchResult, sketchOutcome, nextFileId, photoResults >>

SheetCallPcs ==
  { "findSheet", "structure", "headerValues", "headerFormat", "tableValues",
    "tableFormat", "spacer", "galleryHeaderValue", "galleryHeaderFormat",
    "photoValues", "photoFormat" }

\* a Sheets API call is rejected: the catch of writeToSheet rethrows
SheetsCallFails ==
  /\ pc \in SheetCallPcs
  /\ pc' = "threw"
  /\ \E err \in ApiErrors : error' = CatchMessage(err)
  /\ UNCHANGED << appVars, inputVars, pureVars, bookVars, uploadVars, sheetVars, now, oldSheet, newSheet,
                  sketchResult, sketchOutcome, nextFileId, photoResults, calls >>

Next ==
  \/ CheckArguments \/ GetOAuthClient
  \/ FindSheet \/ DeleteSheet \/ AddSheet
  \/ SkipSketch \/ StartSketch \/ EndSketch
  \/ SkipPhotos \/ CallUploadPhotos \/ ResolveFolders
  \/ StartAttempt \/ EndAttempt \/ PacingDelay \/ ReturnResults
  \/ Structure \/ HeaderValues \/ HeaderFormat \/ TableValues \/ TableFormat
  \/ Spacer \/ GalleryHeaderValue \/ GalleryHeaderFormat
  \/ PhotoValues \/ PhotoFormat
  \/ SheetsCallFails

Spec == Init /\ [][Next]_vars

\* the steps a submission without sketch and photos can take
NextTable ==
  \/ CheckArguments \/ GetOAuthClient
  \/ FindSheet \/ DeleteSheet \/ AddSheet
  \/ SkipSketch \/ SkipPhotos
  \/ Structure \/ HeaderValues \/ HeaderFormat \/ TableValues \/ TableFormat
  \/ SheetsCallFails

SpecTable == InitTable /\ [][NextTable]_vars

\* the event loop runs every settled promise and every due timer
Fairness ==
  /\ WF_vars(CheckArguments) /\ WF_vars(GetOAuthClient)
  /\ WF_vars(FindSheet) /\ WF_vars(DeleteSheet) /\ WF_vars(AddSheet)
  /\ WF_vars(SkipSketch) /\ WF_vars(StartSketch) /\ WF_vars(EndSketch)
  /\ WF_vars(SkipPhotos) /\ WF_vars(CallUploadPhotos) /\ WF_vars(ResolveFolders)
  /\ WF_vars(StartAttempt) /\ WF_vars(EndAttempt) /\ WF_vars(PacingDelay)
  /\ WF_vars(ReturnResults)

SpecLive == InitLive /\ [][Next]_vars /\ Fairness

TypeOK ==
  /\ pc \in SheetCallPcs \cup {"start", "auth", "deleteSheet", "addSheet", "sketch", "sketchPending",
                               "photos", "photosPending", "done", "threw"}
  /\ upc \in {"idle", "folders", "loop", "pending", "delay", "returned", "threw", "hung"}
  /\ i \in 0..Len(photos)
  /\ Len(results) <= Len(photos)

\* ------------------------------------------- photos that share a file name
\* the photos of a phone camera roll: two of them are called kitchen.jpg
\* and carry different captions
GalleryPhotoPool ==
  PhotoPool \cup {[name |-> Str("kitchen.jpg"), caption |-> Str("Kitchen floor")]}

InitGallery ==
  /\ InitApp
  /\ sketch \in BOOLEAN
  /\ photos \in SeqsUpTo(GalleryPhotoPool, MaxPhotos)
  /\ workItemsIn = <<>>
  /\ env = GoodEnv
  /\ probe = NoProbe
  /\ InitCommon

SpecGallery == InitGallery /\ [][Next]_vars

\* ---------------------------------------------- helpers called on their own
writerVars ==
  << inputVars, uploadVars, sheetVars, pc, now, oldSheet, newSheet, sketchResult,
     sketchOutcome, nextFileId, photoResults, calls, error >>

\* the lookups the table editor and the extraction can ask of the catalog
PricingProbes ==
  [fn : {"findPricing"},
   category : {Str("Painting"), Str("Doors & Windows"), Str("Other"),
               Str("Roofing"), Str("constructor"), Null, Undefined},
   item : {Str("Clean Walls"), Str("Remove and Install Door Hardware"),
           Str("Countertop Butcherblock"), Str("Mural")},
   description : {Str("Clean"), Str("Remove & Install"), Str("Refinish"),
                  Str(""), Undefined}]

\* the page-break calculation for a table of workItemCount rows
SpacerProbes == [fn : {"pageBreakSpacer"}, workItemCount : 0..MaxWorkItemRows]

\* the names sanitizeSheetName can be handed: nothing, a number, and strings
\* of letters, blanks and the characters a sheet name must not hold, empty,
\* short, of exactly 100 characters and longer
RunPool == [ch : {"A", " "} \cup IllegalChars, n : {1, 99}]
NameProbes ==
  [fn : {"sanitizeSheetName"},
   name : {Null, Undefined, Num(1042)}
            \cup {Text(runs) : runs \in SeqsUpTo(RunPool, MaxRuns)}]

InitHelpers ==
  /\ InitApp
  /\ probe \in PricingProbes \cup SpacerProbes \cup NameProbes
  /\ oldSheet = FALSE
  /\ sketch = FALSE
  /\ photos = <<>>
  /\ workItemsIn = <<>>
  /\ env = GoodEnv
  /\ InitCommon

\* getDefaultPrice and requiresMaterialsCost of one (category, item,
\* description); both throw what findPricing throws
LookupPricing ==
  /\ probe.fn = "findPricing" /\ retval = Null
  /\ retval' =
       IF findPricing(probe.category, probe.item, probe.description).threw
       THEN [t |-> "throw", message |-> "categoryItems.find is not a function"]
       ELSE [t |-> "object",
             pricePerUnit |->
               getDefaultPrice(probe.category, probe.item, probe.description),
             materialsCost |->
               requiresMaterialsCost(probe.category, probe.item, probe.description)]
  /\ UNCHANGED << appVars, writerVars, bookVars, probe >>

\* the smart page break calculation of the gallery
ComputeSpacer ==
  /\ probe.fn = "pageBreakSpacer" /\ retval = Null
  /\ retval' = [t |-> "object",
                estimatedContentHeight |-> estimatedContentHeight(probe.workItemCount),
                pageBreakSpacer |-> pageBreakSpacer(probe.workItemCount)]
  /\ UNCHANGED << appVars, writerVars, bookVars, probe >>

SanitizeName ==
  /\ probe.fn = "sanitizeSheetName" /\ retval = Null
  /\ retval' = sanitizeSheetName(probe.name)
  /\ UNCHANGED << appVars, writerVars, bookVars, probe >>

NextHelpers ==
  \/ LookupPricing
  \/ ComputeSpacer
  \/ SanitizeName

SpecHelpers == InitHelpers /\ [][NextHelpers]_vars

\* ------------------------------- submissions against one spreadsheet
\* Several calls of writeToSheet, one after the other or overlapping, on the
\* spreadsheet of GOOGLE_SHEETS_ID; they carry work items only.  A sheet is
\* [title, owner, values, merges, heights], owner the submission that
\* added it.  Calls with a sheetId address that sheet; value writes address
\* the range '<newSheetName>'!A1, the sheet that has the title now.
Ch(c) == [ch |-> c, n |-> 1]
\* 'WO-7' and 'WO/7'
RawWorkOrders ==
  { Text(<< Ch("W"), Ch("O"), Ch("-"), Ch("7") >>),
    Text(<< Ch("W"), Ch("O"), Ch("/"), Ch("7") >>) }

BookItemLists ==
  { << Item(Str("Clean Up"), "Oven", "Clean", 1, 4500, Num(4500)) >>,
    << Item(Str("Painting"), "Clean Walls", "Clean", 100, 15, Undefined),
       Item(Str("Painting"), "Patch Hole", "Install", 2, 1550, Undefined) >> }

InitBook ==
  /\ InitApp
  /\ sketch = FALSE
  /\ photos = <<>>
  /\ workItemsIn = <<>>
  /\ env = GoodEnv
  /\ probe = NoProbe
  /\ oldSheet = FALSE
  /\ InitCommon

InProgress(q) == subs[q].pc \notin {"done", "threw"}

\* findSheetByName on the sheets there are now: the sheetId, 0 for null
SheetTitled(bk, title) ==
  IF \E id \in DOMAIN bk : bk[id].title = title
  THEN CHOOSE id \in DOMAIN bk : bk[id].title = title
  ELSE 0

Without(bk, id) == [x \in DOMAIN bk \ {id} |-> bk[x]]

\* the sheet addSheet makes: blank, 200 x 9
BlankSheet(title, p) ==
  [title |-> title, owner |-> p, values |-> <<>>, merges |-> {}, heights |-> <<>>]

\* a find-or-create in place of addSheet: a sheet of that title is taken over
AddSheetReply_findOrCreate(bk, title, id) ==
  IF SheetTitled(bk, title) # 0 THEN SheetTitled(bk, title) ELSE id

\* the sheetId addSheet replies with, id for a new sheet; 0 when the request
\* is refused because the title is in use
AddSheetReply(bk, title, id) ==
  IF SheetTitled(bk, title) # 0 THEN 0 ELSE id

\* cellData of a submission without sketch, B1 the raw work-order number
BookCellData(raw) == Put(CellData(Null), Cell(1, 2, raw))

CategoryMergeRanges(sorted) ==
  { << categoryMerges(sorted)[k][1], categoryMerges(sorted)[k][2], 0, 1 >> :
      k \in 1..Len(categoryMerges(sorted)) }

Step(p, next) == [subs EXCEPT ![p].pc = next]
Throw(p, err) == [subs EXCEPT ![p].pc = "threw", ![p].error = CatchMessage(err)]

\* a call of writeToSheet arrives; the checks pass, the name is sanitized
Submit ==
  /\ Len(subs) < MaxSubmissions
  /\ \E raw \in RawWorkOrders, items \in BookItemLists :
       subs' = Append([q \in DOMAIN subs |->
                         IF InProgress(q)
                         THEN [subs[q] EXCEPT !.overlapped = TRUE]
                         ELSE subs[q]],
                      [raw |-> raw, items |-> items, pc |-> "findSheet",
                       newSheetName |-> sanitizeSheetName(raw),
                       existingSheetId |-> 0, newSheetId |-> 0, error |-> "",
                       overlapped |-> \E q \in DOMAIN subs : InProgress(q),
                       during |-> {q \in DOMAIN subs : InProgress(q)},
                       deleted |-> {}])
  /\ UNCHANGED << appVars, writerVars, pureVars, book, nextSheetId >>

BookFindSheet(p) ==
  /\ subs[p].pc = "findSheet"
  /\ subs' = [subs EXCEPT
                ![p].existingSheetId = SheetTitled(book, subs[p].newSheetName),
                ![p].pc = IF SheetTitled(book, subs[p].newSheetName) # 0
                          THEN "deleteSheet" ELSE "addSheet"]
  /\ UNCHANGED << appVars, writerVars, pureVars, book, nextSheetId >>

\* deleteSheet without the inner try: a rejection goes to the outer catch
BookDeleteSheet_rethrow(p) ==
  /\ subs[p].pc = "deleteSheet"
  /\ \E ok \in BOOLEAN :
       IF ok /\ subs[p].existingSheetId \in DOMAIN book
       THEN /\ book' = Without(book, subs[p].existingSheetId)
            /\ subs' = [subs EXCEPT
                          ![p].pc = "addSheet",
                          ![p].deleted = {book[subs[p].existingSheetId].owner}]
       ELSE /\ subs' = Throw(p, PermissionError)
            /\ UNCHANGED book
  /\ UNCHANGED << appVars, writerVars, pureVars, nextSheetId >>

\* deleteSheet by sheetId; a rejection (the sheet is gone, it is the last
\* one, the quota) is only logged
BookDeleteSheet(p) ==
  /\ subs[p].pc = "deleteSheet"
  /\ \E ok \in BOOLEAN :
       IF ok /\ subs[p].existingSheetId \in DOMAIN book
       THEN /\ book' = Without(book, subs[p].existingSheetId)
            /\ subs' = [subs EXCEPT
                          ![p].pc = "addSheet",
                          ![p].deleted = {book[subs[p].existingSheetId].owner}]
       ELSE /\ subs' = Step(p, "addSheet")
            /\ UNCHANGED book
  /\ UNCHANGED << appVars, writerVars, pureVars, nextSheetId >>

\* addSheet; a title that is in use is refused
BookAddSheet(p) ==
  /\ subs[p].pc = "addSheet"
  /\ LET reply == AddSheetReply(book, subs[p].newSheetName, nextSheetId)
     IN IF reply = 0
        THEN /\ subs' = Throw(p, DuplicateTitleError)
             /\ UNCHANGED << book, nextSheetId >>
        ELSE /\ book' = [id \in DOMAIN book \cup {reply} |->
                           IF id \in DOMAIN book THEN book[id]
                           ELSE BlankSheet(subs[p].newSheetName, p)]
             /\ subs' = [subs EXCEPT ![p].pc = "structure",
                                     ![p].newSheetId = reply]
             /\ nextSheetId' = nextSheetId + 1
  /\ UNCHANGED << appVars, writerVars, pureVars >>

\* a batchUpdate whose requests name newSheetId: row sizes and merges
BySheetId(p, next, rowSizes, mergeRanges) ==
  /\ IF subs[p].newSheetId \in DOMAIN book
     THEN /\ book' = [book EXCEPT ![subs[p].newSheetId].heights = Put(@, rowSizes),
                                  ![subs[p].newSheetId].merges = @ \cup mergeRanges]
          /\ subs' = Step(p, next)
     ELSE /\ subs' = Throw(p, [code |-> 400, message |-> "No grid with id"])
          /\ UNCHANGED book
  /\ UNCHANGED << appVars, writerVars, pureVars, nextSheetId >>

\* a values.batchUpdate whose ranges name newSheetName
BySheetName(p, next, data) ==
  /\ IF SheetTitled(book, subs[p].newSheetName) # 0
     THEN /\ book' = [book EXCEPT ![SheetTitled(book, subs[p].newSheetName)].values
                                    = Put(@, data)]
          /\ subs' = Step(p, next)
     ELSE /\ subs' = Throw(p, [code |-> 400, message |-> "Unable to parse range"])
          /\ UNCHANGED book
  /\ UNCHANGED << appVars, writerVars, pureVars, nextSheetId >>

BookStructure(p) ==
  /\ subs[p].pc = "structure"
  /\ BySheetId(p, "headerValues", RowHeightRequests, MergeRequests)

BookHeaderValues(p) ==
  /\ subs[p].pc = "headerValues"
  /\ BySheetName(p, "headerFormat", BookCellData(subs[p].raw))

BookHeaderFormat(p) ==
  /\ subs[p].pc = "headerFormat"
  /\ BySheetId(p, "tableValues", <<>>, {})

BookTableValues(p) ==
  /\ subs[p].pc = "tableValues"
  /\ BySheetName(p, "tableFormat",
                 TableData(sortedWorkItems(FilterItems(subs[p].items))))

BookTableFormat(p) ==
  /\ subs[p].pc = "tableFormat"
  /\ BySheetId(p, AfterTable(<<>>), <<>>,
               CategoryMergeRanges(sortedWorkItems(FilterItems(subs[p].items))))

\* a Sheets API call of submission p is rejected
BookCallFails(p) ==
  /\ subs[p].pc \in SheetCallPcs
  /\ subs' = Throw(p, PermissionError)
  /\ UNCHANGED << appVars, writerVars, pureVars, book, nextSheetId >>

NextBook ==
  \/ Submit
  \/ \E p \in DOMAIN subs : BookFindSheet(p)
  \/ \E p \in DOMAIN subs : BookDeleteSheet(p)
  \/ \E p \in DOMAIN subs : BookAddSheet(p)
  \/ \E p \in DOMAIN subs : BookStructure(p)
  \/ \E p \in DOMAIN subs : BookHeaderValues(p)
  \/ \E p \in DOMAIN subs : BookHeaderFormat(p)
  \/ \E p \in DOMAIN subs : BookTableValues(p)
  \/ \E p \in DOMAIN subs : BookTableFormat(p)
  \/ \E p \in DOMAIN subs : BookCallFails(p)

SpecBook == InitBook /\ [][NextBook]_vars

\* ------------------------------------------------------- POST /api/submit
\* One request to the submit handler of pages/api/process.js and the call
\* of writeToSheet it makes, on a spreadsheet that is empty or holds the
\* sheet of an earlier submission of 'WO-7'.
Arr(items) == [t |-> "array", items |-> items]

StructuredDataPool ==
  {Undefined, Str("WO-7")} \cup
  [t : {"object"},
   workOrderNumber : RawWorkOrders \cup {Undefined, Text(<<>>)},
   workItems : {Undefined, Arr(<<>>)} \cup {Arr(items) : items \in BookItemLists}]

SubmitRequests ==
  [method : {"POST", "GET"},
   session : {Null, [t |-> "object", accessToken |-> Undefined],
              [t |-> "object", accessToken |-> Str("ya29.token")]},
   structuredData : StructuredDataPool,
   englishScope : {Str("Paint the walls."), Str("")},
   spanishScope : {Str("Pintar las paredes."), Undefined}]

\* the sheet an earlier submission of 'WO-7' left, under sheetId 1
EarlierSheet ==
  [title |-> sanitizeSheetName(Text(<< Ch("W"), Ch("O"), Ch("-"), Ch("7") >>)),
   owner |-> 0,
   values |-> BookCellData(Text(<< Ch("W"), Ch("O"), Ch("-"), Ch("7") >>)),
   merges |-> MergeRequests, heights |-> RowHeightRequests]

InitSubmit ==
  /\ sketch = FALSE
  /\ photos = <<>>
  /\ workItemsIn = <<>>
  /\ env = GoodEnv
  /\ probe = NoProbe
  /\ oldSheet = FALSE
  /\ InitIdle
  /\ subs = <<>>
  /\ \/ book = <<>> /\ nextSheetId = 1
     \/ book = (1 :> EarlierSheet) /\ nextSheetId = 2
  /\ \E req \in SubmitRequests : api = [hpc |-> "received", req |-> req, res |-> Null]
  /\ drive = EmptyDrive
  /\ batch = NoBatch
  /\ InitHome

\* res.status(status).json(body)
Reply(status, body) == [status |-> status, body |-> body]

\* the early returns of the handler, in their order; Null when it goes on
Rejection(req) ==
  IF req.method # "POST" THEN Reply(405, [error |-> "Method not allowed"])
  ELSE IF req.session = Null
  THEN Reply(401, [error |-> "Not authenticated. Please sign in."])
  ELSE IF ~Truthy(req.session.accessToken)
  THEN Reply(401, [error |-> "No access token. Please sign out and sign in again."])
  ELSE IF req.structuredData.t # "object"
  THEN Reply(400, [error |-> "structuredData is required"])
  ELSE IF ~Truthy(req.structuredData.workItems)
          \/ Len(req.structuredData.workItems.items) = 0
  THEN Reply(400, [error |-> "At least one work item is required"])
  ELSE IF ~Truthy(req.englishScope) \/ ~Truthy(req.spanishScope)
  THEN Reply(400, [error |-> "Both englishScope and spanishScope are required"])
  ELSE Null

\* structuredData.workOrderNumber || `WO-${Date.now()}`
rawWorkOrderNumber(structuredData) ==
  IF structuredData.workOrderNumber.t = "string"
     /\ TextLen(structuredData.workOrderNumber.runs) > 0
  THEN structuredData.workOrderNumber
  ELSE DefaultSheetName

\* the handler from the request to its early return or to the call of
\* writeToSheet, whose checks pass
SubmitHandler ==
  /\ api.hpc = "received"
  /\ IF Rejection(api.req) # Null
     THEN /\ api' = [api EXCEPT !.hpc = "responded", !.res = Rejection(api.req)]
          /\ UNCHANGED subs
     ELSE /\ api' = [api EXCEPT !.hpc = "writing"]
          /\ subs' = << [raw |-> rawWorkOrderNumber(api.req.structuredData),
                         items |-> api.req.structuredData.workItems.items,
                         pc |-> "findSheet",
                         newSheetName |->
                           sanitizeSheetName(rawWorkOrderNumber(api.req.structuredData)),
                         existingSheetId |-> 0, newSheetId |-> 0, error |-> "",
                         overlapped |-> FALSE, during |-> {}, deleted |-> {}] >>
  /\ UNCHANGED << driveVars, pageVars, editorVars, writerVars, pureVars, book, nextSheetId >>

\* writeToSheet has returned or thrown: 200 with its result, or the catch
SubmitRespond ==
  /\ api.hpc = "writing"
  /\ ~InProgress(1)
  /\ api' = [api EXCEPT
               !.hpc = "responded",
               !.res = IF subs[1].pc = "done"
                       THEN Reply(200, [success |-> TRUE,
                                        sheetName |-> subs[1].newSheetName,
                                        sheetId |-> subs[1].newSheetId])
                       ELSE Reply(500, [success |-> FALSE,
                                        error |-> "Internal server error",
                                        message |-> subs[1].error])]
  /\ UNCHANGED << driveVars, pageVars, editorVars, writerVars, pureVars, bookVars >>

NextSubmit ==
  \/ SubmitHandler
  \/ \E p \in DOMAIN subs : BookFindSheet(p)
  \/ \E p \in DOMAIN subs : BookDeleteSheet(p)
  \/ \E p \in DOMAIN subs : BookAddSheet(p)
  \/ \E p \in DOMAIN subs : BookStructure(p)
  \/ \E p \in DOMAIN subs : BookHeaderValues(p)
  \/ \E p \in DOMAIN subs : BookHeaderFormat(p)
  \/ \E p \in DOMAIN subs : BookTableValues(p)
  \/ \E p \in DOMAIN subs : BookTableFormat(p)
  \/ \E p \in DOMAIN subs : BookCallFails(p)
  \/ SubmitRespond

SpecSubmit == InitSubmit /\ [][NextSubmit]_vars

\* --------------------------------------------- the folders of the uploader
\* Upload batches that run one after the other on one Drive.  A folder is
\* [name, parent], parent 0 for My Drive; its id is its place in
\* drive.folders.  A file is [folder, workOrder, batch].
PHOTOS_FOLDER == "Turnovers_Photos"

\* the work-order numbers of the batches: any text passes as one
FolderWorkOrders == {"WO-7", "Turnovers_Photos"}

InitFolders ==
  /\ sketch = FALSE
  /\ photos = <<>>
  /\ workItemsIn = <<>>
  /\ env = GoodEnv
  /\ probe = NoProbe
  /\ oldSheet = FALSE
  /\ InitCommon
  /\ api = NoApi
  /\ drive = EmptyDrive
  /\ batch = NoBatch
  /\ InitHome

notDrive == << api, pageVars, editorVars, writerVars, pureVars, bookVars >>

\* a lookup that makes a new folder every time
ListFolders_none(folders, folderName, parentId) == {}

\* files.list of the query of findOrCreateFolder: the folders of that name,
\* under parentId when one is given, anywhere in the Drive when none is
ListFolders(folders, folderName, parentId) ==
  { id \in DOMAIN folders :
      /\ folders[id].name = folderName
      /\ parentId # 0 => folders[id].parent = parentId }

\* uploadPhotosToDrive is called with a non-empty photo list
StartBatch ==
  /\ batch.fpc = "idle" /\ batch.n < MaxBatches
  /\ \E workOrderNumber \in FolderWorkOrders :
       batch' = [n |-> batch.n + 1, fpc |-> "listParent",
                 workOrderNumber |-> workOrderNumber,
                 parentFolderId |-> 0, workOrderFolderId |-> 0]
  /\ UNCHANGED << notDrive, drive >>

\* findOrCreateFolder(drive, 'Turnovers_Photos'): the list; response.data.files[0]
\* is any of the matches, the list carries no orderBy
FindParentFolder ==
  /\ batch.fpc = "listParent"
  /\ LET found == ListFolders(drive.folders, PHOTOS_FOLDER, 0)
     IN IF found # {}
        THEN \E id \in found :
               batch' = [batch EXCEPT !.parentFolderId = id, !.fpc = "listChild"]
        ELSE batch' = [batch EXCEPT !.fpc = "createParent"]
  /\ UNCHANGED << notDrive, drive >>

\* findOrCreateFolder(drive, 'Turnovers_Photos'): files.create
CreateParentFolder ==
  /\ batch.fpc = "createParent"
  /\ drive' = [drive EXCEPT
                 !.folders = Append(@, [name |-> PHOTOS_FOLDER, parent |-> 0])]
  /\ batch' = [batch EXCEPT !.parentFolderId = Len(drive.folders) + 1,
                             !.fpc = "listChild"]
  /\ UNCHANGED notDrive

\* findOrCreateFolder(drive, workOrderNumber || 'Unassigned', parentFolderId): the list
FindWorkOrderFolder ==
  /\ batch.fpc = "listChild"
  /\ LET found == ListFolders(drive.folders, batch.workOrderNumber, batch.parentFolderId)
     IN IF found # {}
        THEN \E id \in found :
               batch' = [batch EXCEPT !.workOrderFolderId = id, !.fpc = "upload"]
        ELSE batch' = [batch EXCEPT !.fpc = "createChild"]
  /\ UNCHANGED << notDrive, drive >>

\* findOrCreateFolder(drive, workOrderNumber, parentFolderId): files.create
CreateWorkOrderFolder ==
  /\ batch.fpc = "createChild"
  /\ drive' = [drive EXCEPT
                 !.folders = Append(@, [name |-> batch.workOrderNumber,
                                        parent |-> batch.parentFolderId])]
  /\ batch' = [batch EXCEPT !.workOrderFolderId = Len(drive.folders) + 1,
                             !.fpc = "upload"]
  /\ UNCHANGED notDrive

\* the loop: the photo of the batch goes into workOrderFolderId, or its
\* upload fails and is recorded; the batch returns
UploadIntoFolder ==
  /\ batch.fpc = "upload"
  /\ \E ok \in BOOLEAN :
       drive' = IF ok
                THEN [drive EXCEPT
                        !.files = Append(@, [folder |-> batch.workOrderFolderId,
                                             workOrder |-> batch.workOrderNumber,
                                             batch |-> batch.n])]
                ELSE drive
  /\ batch' = [batch EXCEPT !.fpc = "idle"]
  /\ UNCHANGED notDrive

\* a list or create call of the folder resolution is rejected: the batch
\* throws 'Failed to upload photos: ...'
FolderCallFails ==
  /\ batch.fpc \in {"listParent", "createParent", "listChild", "createChild"}
  /\ batch' = [batch EXCEPT !.fpc = "idle"]
  /\ UNCHANGED << notDrive, drive >>

NextFolders ==
  \/ StartBatch
  \/ FindParentFolder \/ CreateParentFolder
  \/ FindWorkOrderFolder \/ CreateWorkOrderFolder
  \/ UploadIntoFolder
  \/ FolderCallFails

SpecFolders == InitFolders /\ [][NextFolders]_vars

\* ------------------------------------------------------- the page (Home)
\* The handlers of pages/index.js, each started as the rendered controls
\* allow it.  A handler that awaits a fetch is two steps: the part before the
\* await, and the continuation that runs when the request has settled.
notPage == << api, driveVars, writerVars, pureVars, bookVars >>

updatedData == [workOrderNumber |-> "WO-7", workItems |-> 1]

\* the bodies /api/process answers with; a body without the fields (an
\* error body) reads as undefined everywhere
ProcessResults ==
  { [assistantMessage |-> "reply", updatedData |-> TRUE, isComplete |-> TRUE],
    [assistantMessage |-> "reply", updatedData |-> TRUE, isComplete |-> FALSE],
    [assistantMessage |-> "reply", updatedData |-> FALSE, isComplete |-> FALSE],
    [assistantMessage |-> "undefined", updatedData |-> FALSE, isComplete |-> FALSE] }

\* Home renders ScopePreview on the data tab while a scope has text
Rendered(h) ==
  /\ h.activeTab = "data"
  /\ ~Blank(h.englishScope) \/ ~Blank(h.spanishScope)

\* editable={scopesGenerated && !isSubmitted}
editable(h) == h.scopesGenerated /\ ~h.isSubmitted

\* the state of ScopePreview after a render of Home: an instance that is
\* no longer rendered is unmounted and the next one starts afresh
PreviewAfter(h, pv) == IF Rendered(h) THEN pv ELSE FreshPreview

\* no effect of ScopePreview clears its timer or cancels its fetches at
\* unmount: they go on without an instance
RequestsAfter(h, pv, rq) ==
  IF Rendered(h) THEN rq
  ELSE {[r EXCEPT !.mounted = FALSE] : r \in rq}
       \cup (IF pv.debounceRef = NoTimer THEN {}
             ELSE {[stage |-> "timer", text |-> pv.debounceRef.text,
                    targetLanguage |-> pv.debounceRef.targetLanguage,
                    mounted |-> FALSE]})

\* Home renders with state h
Render(h) ==
  /\ home' = h
  /\ preview' = PreviewAfter(h, preview)
  /\ requests' = RequestsAfter(h, preview, requests)

\* handleUserInput up to its fetch; InputSection submits only while it is
\* neither disabled (isComplete) nor processing
HandleUserInput ==
  /\ ~home.isComplete /\ ~home.isProcessing
  /\ Len(home.conversationHistory) < 2 * MaxTurns
  /\ LET newHistory == Append(home.conversationHistory,
                              [role |-> "user", content |-> "userInput",
                               language |-> home.inputLanguage])
     IN /\ Render([home EXCEPT !.isProcessing = TRUE,
                               !.conversationHistory = newHistory])
        /\ fetching' = [kind |-> "process", newHistory |-> newHistory]
  /\ UNCHANGED << typed, notPage >>

\* handleUserInput from the answer of /api/process on, its catch and its
\* finally included
ProcessResponds ==
  /\ fetching.kind = "process"
  /\ \/ \E result \in ProcessResults :
          Render([home EXCEPT
            !.conversationHistory =
               Append(fetching.newHistory,
                      [role |-> "assistant", content |-> result.assistantMessage]),
            !.structuredData = IF result.updatedData THEN updatedData ELSE @,
            !.isComplete = IF result.isComplete THEN TRUE ELSE @,
            !.currentStep = IF result.isComplete THEN "review" ELSE @,
            !.isProcessing = FALSE])
     \/ Render([home EXCEPT
            !.conversationHistory =
               Append(fetching.newHistory,
                      [role |-> "assistant", content |-> "sorry"]),
            !.isProcessing = FALSE])
  /\ fetching' = NoFetch
  /\ UNCHANGED << typed, notPage >>

\* handleGenerateScopes up to its fetch, from either of its two buttons
HandleGenerateScopes ==
  /\ \/ home.isComplete /\ ~home.scopesGenerated
     \/ home.scopesGenerated /\ ~home.isSubmitted
  /\ ~home.isProcessing
  /\ Render([home EXCEPT !.isProcessing = TRUE])
  /\ fetching' = [kind |-> "generate-scopes"]
  /\ UNCHANGED << typed, notPage >>

GenerateScopesResponds ==
  /\ fetching.kind = "generate-scopes"
  /\ \/ Render([home EXCEPT !.englishScope = GeneratedScope,
                            !.spanishScope = GeneratedScope,
                            !.scopesGenerated = TRUE,
                            !.currentStep = "scopes",
                            !.isProcessing = FALSE])
     \/ Render([home EXCEPT !.isProcessing = FALSE])
  /\ fetching' = NoFetch
  /\ UNCHANGED << typed, notPage >>

\* handleSubmit up to its fetch
HandleSubmit ==
  /\ home.scopesGenerated /\ ~home.isSubmitted
  /\ ~home.isProcessing
  /\ Render([home EXCEPT !.isProcessing = TRUE])
  /\ fetching' = [kind |-> "submit"]
  /\ UNCHANGED << typed, notPage >>

SubmitResponds ==
  /\ fetching.kind = "submit"
  /\ \/ \E sheetUrl \in {"", "sheetUrl"} :
          Render([home EXCEPT !.submittedSheetUrl = sheetUrl,
                              !.isSubmitted = TRUE,
                              !.currentStep = "submitted",
                              !.isProcessing = FALSE])
     \/ Render([home EXCEPT !.isProcessing = FALSE])
  /\ fetching' = NoFetch
  /\ UNCHANGED << typed, notPage >>

\* a reset that leaves the step where it was
HandleReset_keepStep ==
  /\ home.isSubmitted
  /\ Render([initialHome EXCEPT !.isProcessing = home.isProcessing,
                                !.enableTTS = home.enableTTS,
                                !.inputLanguage = home.inputLanguage,
                                !.currentStep = home.currentStep])
  /\ UNCHANGED << fetching, typed, notPage >>

\* handleReset, from the button shown once submitted: it calls the setter
\* of every field but isProcessing, enableTTS and inputLanguage
HandleReset ==
  /\ home.isSubmitted
  /\ Render([initialHome EXCEPT !.isProcessing = home.isProcessing,
                                !.enableTTS = home.enableTTS,
                                !.inputLanguage = home.inputLanguage])
  /\ UNCHANGED << fetching, typed, notPage >>

\* the voice button of the header
ToggleTTS ==
  /\ Render([home EXCEPT !.enableTTS = ~@])
  /\ UNCHANGED << fetching, typed, notPage >>

\* the language buttons of InputSection
SetInputLanguage ==
  /\ ~home.isComplete /\ ~home.isProcessing
  /\ \E language \in {"en", "es"} :
       /\ language # home.inputLanguage
       /\ Render([home EXCEPT !.inputLanguage = language])
  /\ UNCHANGED << fetching, typed, notPage >>

SetActiveTab ==
  /\ \E tab \in {"data", "sketch", "photos"} :
       /\ tab # home.activeTab
       /\ Render([home EXCEPT !.activeTab = tab])
  /\ UNCHANGED << fetching, typed, notPage >>

\* SketchCanvas draws or clears the floor plan
SetSketch ==
  /\ home.activeTab = "sketch"
  /\ Render([home EXCEPT !.sketch = IF @ = "null" THEN "drawing" ELSE "null"])
  /\ UNCHANGED << fetching, typed, notPage >>

\* PhotoGallery adds or removes a photo
SetPhotos ==
  /\ home.activeTab = "photos"
  /\ Render([home EXCEPT !.photos = IF @ = <<>> THEN <<"kitchen.jpg">> ELSE <<>>])
  /\ UNCHANGED << fetching, typed, notPage >>

InitPage ==
  /\ sketch = FALSE
  /\ photos = <<>>
  /\ workItemsIn = <<>>
  /\ env = GoodEnv
  /\ probe = NoProbe
  /\ oldSheet = FALSE
  /\ InitCommon
  /\ api = NoApi
  /\ drive = EmptyDrive
  /\ batch = NoBatch
  /\ InitHome

NextPage ==
  \/ HandleUserInput \/ ProcessResponds
  \/ HandleGenerateScopes \/ GenerateScopesResponds
  \/ HandleSubmit \/ SubmitResponds
  \/ HandleReset
  \/ ToggleTTS \/ SetInputLanguage \/ SetActiveTab \/ SetSketch \/ SetPhotos

SpecPage == InitPage /\ [][NextPage]_vars

\* a request that was sent settles, with an answer or with an error
SpecPageLive ==
  /\ SpecPage
  /\ WF_vars(ProcessResponds)
  /\ WF_vars(GenerateScopesResponds)
  /\ WF_vars(SubmitResponds)

\* ------------------------------------------------- the scope editor
\* ScopePreview as Home renders it.  A debounce timer and a translation
\* request are steps of their own: the timer fires 1.5s after the edit that
\* set it, the continuation of translateScope runs when the request has
\* settled.  requests holds the fetches in flight and the timers of
\* instances that are no longer mounted.

\* the Edit / View button
ToggleEditMode ==
  /\ Rendered(home) /\ editable(home)
  /\ preview' = [preview EXCEPT !.isEditMode = ~@]
  /\ UNCHANGED << home, fetching, requests, typed, notPage >>

\* onChange of a textarea: the text goes to Home, the pending timer is
\* cleared and a new one set for the other language
Edit(h, activeEdit, newText, targetLanguage) ==
  LET pv == [preview EXCEPT !.activeEdit = activeEdit,
                            !.debounceRef = [text |-> newText,
                                             targetLanguage |-> targetLanguage]]
  IN /\ home' = h
     /\ preview' = PreviewAfter(h, pv)
     /\ requests' = RequestsAfter(h, pv, requests)
     /\ typed' = typed + 1
     /\ UNCHANGED << fetching, notPage >>

\* the textareas are shown when editable && isEditMode
HandleEnglishChange ==
  /\ Rendered(home) /\ editable(home) /\ preview.isEditMode
  /\ typed < MaxEdits
  /\ \E newText \in {TypedScope(typed + 1), EmptyScope} :
       /\ newText # home.englishScope
       /\ Edit([home EXCEPT !.englishScope = newText], "en", newText, "es")

HandleSpanishChange ==
  /\ Rendered(home) /\ editable(home) /\ preview.isEditMode
  /\ typed < MaxEdits
  /\ \E newText \in {TypedScope(typed + 1), EmptyScope} :
       /\ newText # home.spanishScope
       /\ Edit([home EXCEPT !.spanishScope = newText], "es", newText, "en")

\* translateScope up to its fetch, for a timer of a mounted or of an
\* unmounted instance
Fetches(timer, mounted) ==
  IF Blank(timer.text) THEN {}
  ELSE {[stage |-> "fetch", text |-> timer.text,
         targetLanguage |-> timer.targetLanguage, mounted |-> mounted]}

\* the timer of the mounted instance fires
DebounceFires ==
  /\ preview.debounceRef # NoTimer
  /\ preview' = [preview EXCEPT
                   !.debounceRef = NoTimer,
                   !.isTranslating = IF Blank(preview.debounceRef.text) THEN @ ELSE TRUE]
  /\ requests' = requests \cup Fetches(preview.debounceRef, TRUE)
  /\ UNCHANGED << home, fetching, typed, notPage >>

\* the timer of an instance that was unmounted fires
OrphanDebounceFires ==
  /\ \E r \in requests :
       /\ r.stage = "timer"
       /\ requests' = (requests \ {r}) \cup Fetches(r, FALSE)
  /\ UNCHANGED << home, preview, fetching, typed, notPage >>

\* the continuation of translateScope on an ok response
TranslateApply(h, r) ==
  IF r.targetLanguage = "es"
  THEN [h EXCEPT !.spanishScope = TranslatedScope(r.text)]
  ELSE [h EXCEPT !.englishScope = TranslatedScope(r.text)]

\* translateScope from the answer of /api/translate-scope on; a response
\* that is not ok, or a rejected fetch, changes no text
TranslateResponds ==
  /\ \E r \in requests :
       /\ r.stage = "fetch"
       /\ \E h \in {TranslateApply(home, r), home} :
            LET pv == IF r.mounted THEN [preview EXCEPT !.isTranslating = FALSE]
                      ELSE preview
            IN /\ home' = h
               /\ preview' = PreviewAfter(h, pv)
               /\ requests' = RequestsAfter(h, pv, requests \ {r})
  /\ UNCHANGED << fetching, typed, notPage >>

\* the page once one exchange has completed the data and the scopes have
\* been generated: ScopePreview is rendered and editable
scopesReady ==
  [initialHome EXCEPT
     !.conversationHistory =
        << [role |-> "user", content |-> "userInput", language |-> "en"],
           [role |-> "assistant", content |-> "reply"] >>,
     !.structuredData = updatedData,
     !.isComplete = TRUE,
     !.scopesGenerated = TRUE,
     !.currentStep = "scopes",
     !.englishScope = GeneratedScope,
     !.spanishScope = GeneratedScope]

InitEditor ==
  /\ sketch = FALSE
  /\ photos = <<>>
  /\ workItemsIn = <<>>
  /\ env = GoodEnv
  /\ probe = NoProbe
  /\ oldSheet = FALSE
  /\ InitCommon
  /\ api = NoApi
  /\ drive = EmptyDrive
  /\ batch = NoBatch
  /\ home = scopesReady
  /\ fetching = NoFetch
  /\ preview = FreshPreview
  /\ requests = {}
  /\ typed = 0

\* the editor, with the handlers of the page that change what it is given:
\* the scopes, editable, and whether it is rendered at all
NextEditor ==
  \/ ToggleEditMode
  \/ HandleEnglishChange \/ HandleSpanishChange
  \/ DebounceFires \/ OrphanDebounceFires
  \/ TranslateResponds
  \/ HandleGenerateScopes \/ GenerateScopesResponds
  \/ HandleSubmit \/ SubmitResponds
  \/ HandleReset
  \/ SetActiveTab

SpecEditor == InitEditor /\ [][NextEditor]_vars

\* ------------------------------------------------------------ properties
\* the photos whose transfer Drive completed, by position in the input
OkIndices ==
  SelectSeq([k \in 1..Len(driveLog) |-> k], LAMBDA k : driveLog[k].kind = "ok")

\* entry k of a result list answers for photo k of the input
EntryFor(res, k) ==
  IF driveLog[k].kind = "ok"
  THEN /\ Truthy(res[k].directUrl)
       /\ res[k].error = Undefined
       /\ res[k].fileName = PhotoFileName(WorkOrder, k, photos[k])
       /\ res[k].originalName = photos[k].name
  ELSE /\ Truthy(res[k].error)
       /\ res[k].directUrl = Undefined
       /\ res[k].fileName = photos[k].name

FullResultList(res) ==
  /\ Len(res) = Len(photos)
  /\ \A k \in 1..Len(photos) : EntryFor(res, k)

C2_PartialUploadGallery ==
  (pc = "done" /\ upc = "returned") =>
     LET n == Len(photos)
         ok == OkIndices
         first == totalRowNum(itemCount) + 4
     IN /\ Len(startT) = n /\ Len(endT) = n /\ Len(driveLog) = n
        /\ Len(photoResults) = n
        /\ Cardinality({k \in 1..n : Truthy(photoResults[k].error)}) = n - Len(ok)
        /\ \A j \in 1..Len(ok) :
             /\ photoResults[ok[j]].fileName
                  = PhotoFileName(WorkOrder, ok[j], photos[ok[j]])
             /\ <<first + 2 * (j - 1), 1>> \in DOMAIN values
             /\ values[<<first + 2 * (j - 1), 1>>]
                  = Image(photoResults[ok[j]].directUrl)
             /\ <<first + 2 * (j - 1) + 1, 1>> \in DOMAIN values
        /\ {c[1] : c \in {d \in DOMAIN values : d[1] >= first}}
             = first .. (first + 2 * Len(ok) - 1)

C2_Witness ==
  /\ pc = "done" /\ upc = "returned" /\ Len(photos) = 2
  /\ driveLog[1].kind = "error" /\ driveLog[2].kind = "ok"

\* every settled attempt took at most the timeout, and a transfer that
\* never completes ends as a timeout error exactly at the timeout
BoundedWait ==
  /\ \A k \in 1..Len(endT) :
       /\ endT[k] - startT[k] <= UPLOAD_TIMEOUT
       /\ driveLog[k].kind = "never" =>
            /\ endT[k] - startT[k] = UPLOAD_TIMEOUT
            /\ results[k].error = Str("Photo upload timeout (30s)")
  /\ sketchOutcome.t = "object" =>
       /\ sketchOutcome.elapsed <= UPLOAD_TIMEOUT
       /\ sketchOutcome.transfer = "never" =>
            /\ sketchOutcome.kind = "timeout"
            /\ sketchOutcome.elapsed = UPLOAD_TIMEOUT
            /\ sketchResult = Null

C4_PacingBetweenAttempts ==
  \A k \in 1..(Len(startT) - 1) :
     startT[k + 1] >= endT[k] + DELAY_BETWEEN_UPLOADS

\* row r of the sheet, columns A to I
RowAt(r) == [k \in 1..9 |-> values[<<r, k>>]]
Called(name) == \E k \in 1..Len(calls) : calls[k] = name
TableWritten == Called("tableValues")
submitted == FilterItems(workItemsIn)

\* C5 as stated: in every data row of the table Total = Amount x Price Per
\* Unit, whatever total the caller put on the item.
C5_TotalIsQuantityTimesPrice ==
  TableWritten =>
    \A k \in 1..Len(submitted) :
       RowAt(HEADER_ROW + k)[8] = RowAt(HEADER_ROW + k)[5] * RowAt(HEADER_ROW + k)[7]

RECURSIVE SumQuantityTimesPrice(_)
SumQuantityTimesPrice(items) ==
  IF items = <<>> THEN 0
  ELSE safeNumber(Head(items).multiplier) * safeNumber(Head(items).pricePerUnit)
       + SumQuantityTimesPrice(Tail(items))

\* C6 as stated: the grand total of the totals row is the sum of quantity x
\* unit price over all items, whatever totals the caller put on the items.
C6_GrandTotalIsSum ==
  TableWritten =>
    RowAt(HEADER_ROW + Len(submitted) + 1)[8] = SumQuantityTimesPrice(submitted)

\* C7 as stated: in the sorted list equal categories are contiguous under
\* the !== of the merge-run detection, for every input.
C7_CategoriesContiguous ==
  TableWritten =>
    \A a, b, c \in 1..Len(sortedItems) :
       (a < b /\ b < c /\ StrictEq(sortedItems[a].category, sortedItems[c].category))
          => StrictEq(sortedItems[b].category, sortedItems[a].category)

\* the maximal runs <<a, b>> (1-based, inclusive) of equal categories
Runs(items) ==
  { r \in (1..Len(items)) \X (1..Len(items)) :
      /\ r[1] <= r[2]
      /\ \A k \in r[1]..r[2] : StrictEq(items[k].category, items[r[1]].category)
      /\ (r[1] > 1 => ~StrictEq(items[r[1] - 1].category, items[r[1]].category))
      /\ (r[2] < Len(items) => ~StrictEq(items[r[2] + 1].category, items[r[2]].category)) }

\* C8 as stated: the merges of column A below the header are exactly one
\* merge per maximal run of more than one row, covering the rows of the run
\* (so none for single rows, none overlapping, none over header or totals).
C8_OneMergePerRun ==
  Called("tableFormat") =>
    {m \in merges : m[3] = 0 /\ m[4] = 1}
      = { << HEADER_ROW_IDX + r[1], HEADER_ROW_IDX + r[2] + 1, 0, 1 >> :
            r \in {q \in Runs(sortedItems) : q[2] > q[1]} }

\* the submitted items with collation rank p, in input order
OfRank(items, p) ==
  SelectSeq(items, LAMBDA it : LocaleRank(safeString(it.category)) = p)
CategoryThenInsertion(items) ==
  OfRank(items, 0) \o OfRank(items, 1) \o OfRank(items, 2) \o OfRank(items, 3)

TableInCategoryThenInsertionOrder ==
  TableWritten =>
    /\ \A k \in 1..Len(submitted) :
         RowAt(HEADER_ROW + k) = workItemRow(CategoryThenInsertion(submitted)[k])
    /\ \A k \in 1..(Len(submitted) - 1) :
         LocaleRank(RowAt(HEADER_ROW + k)[1]) <= LocaleRank(RowAt(HEADER_ROW + k + 1)[1])

\* C9: the data rows are the submitted items sorted by category, items of
\* one category in their input order, and no step reorders the input list.
C9_StableCategoryOrder ==
  /\ []TableInCategoryThenInsertionOrder
  /\ [][workItemsIn' = workItemsIn]_vars

C9_Witness ==
  /\ pc = "tableFormat" /\ Len(workItemsIn) = 3
  /\ \A k \in 1..3 : workItemsIn[k].t = "object"
  /\ workItemsIn[1].category = Str("Painting")
  /\ workItemsIn[2].category = Str("Clean Up")
  /\ workItemsIn[3].category = Str("Painting")
  /\ workItemsIn[1] # workItemsIn[3]

\* C10 as stated: the table has one data row per submitted item, and an
\* item without a catalog entry for its (category, item, description) is
\* shown with unit price 0 and total 0.
C10_CatalogMissKeptAtZero ==
  TableWritten =>
    /\ \A k \in 1..Len(submitted) : <<HEADER_ROW + k, 1>> \in DOMAIN values
    /\ RowAt(HEADER_ROW + Len(submitted) + 1)[7] = "TOTAL:"
    /\ \A k \in 1..Len(sortedItems) :
         ~findPricing(sortedItems[k].category, sortedItems[k].item,
                      sortedItems[k].description).found
           => (RowAt(HEADER_ROW + k)[7] = 0 /\ RowAt(HEADER_ROW + k)[8] = 0)

\* the catalog entries whose category, item and description all equal the
\* three arguments
ExactEntries(category, item, description) ==
  IF category.t # "string" \/ category.v \notin DOMAIN PRICING_CATALOG
  THEN {}
  ELSE { e \in {PRICING_CATALOG[category.v][k] :
                  k \in 1..Len(PRICING_CATALOG[category.v])} :
           /\ Str(e.item) = item
           /\ Str(e.description) = description }

\* C11 as stated: the lookup never throws; it returns the unit price and
\* the materials flag of the entry matching category, item and description
\* exactly, and price 0 with flag false when no entry matches all three
\* (unknown category and empty description included).
C11_LookupExactMatchOrZero ==
  (probe.fn = "findPricing" /\ retval # Null) =>
     /\ retval.t # "throw"
     /\ LET exact == ExactEntries(probe.category, probe.item, probe.description)
        IN IF exact = {}
           THEN retval.pricePerUnit = 0 /\ retval.materialsCost = FALSE
           ELSE \E e \in exact : /\ retval.pricePerUnit = e.pricePerUnit
                                 /\ retval.materialsCost = e.materialsCost

\* the cells of the sheet from the table header row down
TableCells == {c \in DOMAIN values : c[1] >= HEADER_ROW}

\* C12: with no work item to show (an empty list, or one holding only null
\* entries) the table is still written: the header row on row 7, the totals
\* row right below it with 'TOTAL:' and grand total 0, and nothing else;
\* a submission that finishes has written it.
C12_EmptyTableHeaderAndTotals ==
  /\ (pc = "done" /\ Len(submitted) = 0) => TableWritten
  /\ (TableWritten /\ Len(submitted) = 0) =>
       /\ TableCells = (HEADER_ROW .. (HEADER_ROW + 1)) \X (1..9)
       /\ RowAt(HEADER_ROW) = TableHeaders
       /\ RowAt(HEADER_ROW + 1) = << "", "", "", "", "", "", "TOTAL:", 0, "" >>

C12_Witness ==
  /\ pc = "done" /\ TableWritten
  /\ Len(workItemsIn) = 2 /\ Len(submitted) = 0

\* no transfer of a photo of this submission was completed by Drive
NoPhotoToShow == \A k \in 1..Len(driveLog) : driveLog[k].kind # "ok"

GalleryCalls ==
  {"spacer", "galleryHeaderValue", "galleryHeaderFormat", "photoValues", "photoFormat"}

\* C13: when there is no photo to show (no photo given, every photo upload
\* failed, or the batch threw) no spacer, gallery header or photo row is
\* written: no cell, row size or merge lies below the totals row, and a
\* submission that went through the table ends right behind it.
C13_NoGalleryWithoutPhoto ==
  NoPhotoToShow =>
    /\ \A c \in DOMAIN values : c[1] <= totalRowNum(itemCount)
    /\ \A r \in DOMAIN heights : r <= totalRowNum(itemCount)
    /\ \A m \in merges : m[2] <= totalRowNum(itemCount)
    /\ \A k \in 1..Len(calls) : calls[k] \notin GalleryCalls
    /\ pc \notin GalleryCalls

C13_Witness ==
  /\ pc = "done" /\ upc = "returned" /\ Len(photos) = 2
  /\ driveLog[1].kind = "never" /\ driveLog[2].kind = "error"
  /\ Called("tableFormat")

\* where the row behind the spacer starts on its page, in px from the top
Landing == (retval.estimatedContentHeight + retval.pageBreakSpacer) % PAGE_HEIGHT_PX
SpacerComputed == probe.fn = "pageBreakSpacer" /\ retval # Null

\* C14 as stated: for every number of work items (S + spacer) mod H is at
\* most the 20px buffer, also when the 50px floor is applied.
C14_SpacerLandsWithinBuffer ==
  SpacerComputed => Landing <= 20

\* C14 amended: S is 542 + 25 per work item + 25; when H - (S mod H) + 20 is
\* at least the 50px floor the spacer is that value and (S + spacer) mod H
\* is exactly the 20px buffer; when the floor is applied the spacer is 50
\* and (S + spacer) mod H is (S mod H) + 50 - H, more than the buffer and
\* less than the floor.
C14_SpacerLandsWithinFloor ==
  SpacerComputed =>
    LET S == retval.estimatedContentHeight
        used == S % 684
    IN /\ S = 542 + 25 * probe.workItemCount + 25
       /\ IF 684 - used + 20 >= 50
          THEN retval.pageBreakSpacer = 684 - used + 20 /\ Landing = 20
          ELSE /\ retval.pageBreakSpacer = 50
               /\ Landing = used + 50 - 684
               /\ Landing > 20 /\ Landing < 50

C14_Witness ==
  /\ SpacerComputed /\ probe.workItemCount = 4
  /\ retval.pageBreakSpacer = 50 /\ Landing = 33

\* merge m = <<startRowIndex, endRowIndex, startColumnIndex, endColumnIndex>>
\* covers cell c = <<row, column>>
Covers(m, c) == m[1] < c[1] /\ c[1] <= m[2] /\ m[3] < c[2] /\ c[2] <= m[4]

\* C15 as stated: in every step of a commit the sheet exists before
\* anything is sized, merged or written, and a row size or a merge is only
\* ever issued for cells whose values are not written yet: every merge,
\* those of the categories and of the gallery rows included, precedes the
\* values of the cells it covers.
C15_StructureBeforeValues ==
  [][ /\ (values' # values \/ merges' # merges \/ heights' # heights) => newSheet
      /\ \A m \in merges' \ merges : \A c \in DOMAIN values : ~Covers(m, c)
      /\ \A r \in DOMAIN heights' :
           (r \notin DOMAIN heights \/ heights'[r] # heights[r])
              => \A c \in DOMAIN values : c[1] # r ]_vars

Sanitized == probe.fn = "sanitizeSheetName" /\ retval # Null

\* the name is all blanks once its illegal characters are taken for dashes
BlankName(name) ==
  \A k \in 1..Len(name.runs) : name.runs[k].ch = " "

\* C18: for every input sanitizeSheetName returns a string that is not
\* empty, has at most 100 characters and none of ' * ? : / \ [ ]; an
\* input that is missing, is no string or is empty after sanitizing and
\* trimming gives 'WO-<timestamp>', and any other input does not.
C18_SheetNameValid ==
  Sanitized =>
    /\ retval.t = "string"
    /\ TextLen(retval.runs) > 0 /\ TextLen(retval.runs) <= 100
    /\ \A k \in 1..Len(retval.runs) :
         retval.runs[k].ch \notin {"'", "*", "?", ":", "/", "\\", "[", "]"}
    /\ (probe.name.t # "string" \/ BlankName(probe.name))
         <=> retval = DefaultSheetName

C18_Witness ==
  /\ Sanitized /\ probe.name.t = "string"
  /\ TextLen(probe.name.runs) = 101 /\ probe.name.runs[1].ch = "["
  /\ TextLen(retval.runs) = 100 /\ retval.runs[1].ch = "-"

\* the sheet a submission of (raw, items) leaves on an empty spreadsheet
SheetOf(raw, items) ==
  LET sorted == sortedWorkItems(FilterItems(items))
  IN [values |-> Put(BookCellData(raw), TableData(sorted)),
      merges |-> MergeRequests \cup CategoryMergeRanges(sorted),
      heights |-> RowHeightRequests]

Sequential == \A q \in DOMAIN subs : ~subs[q].overlapped
SameWorkOrder == \A q \in DOMAIN subs : subs[q].raw = subs[1].raw
SheetsTitled(title) == {id \in DOMAIN book : book[id].title = title}

\* C16: after submissions for one work-order number that ran one after the
\* other, the earlier ones finished or aborted part way, a last submission
\* that succeeds leaves exactly one sheet of that name, its own, and the
\* cells, merges and row sizes of that sheet are those the submission
\* leaves on an empty spreadsheet: nothing of an earlier run remains.
C16_ResubmissionReplaces ==
  (subs # <<>> /\ Sequential /\ SameWorkOrder /\ subs[Len(subs)].pc = "done") =>
    LET last == subs[Len(subs)]
    IN /\ SheetsTitled(last.newSheetName) = {last.newSheetId}
       /\ book[last.newSheetId].owner = Len(subs)
       /\ book[last.newSheetId].values = SheetOf(last.raw, last.items).values
       /\ book[last.newSheetId].merges = SheetOf(last.raw, last.items).merges
       /\ book[last.newSheetId].heights = SheetOf(last.raw, last.items).heights
       /\ \A c \in DOMAIN book[last.newSheetId].values :
            c[1] <= HEADER_ROW + Len(last.items) + 1

\* the second submission succeeded over the longer table the first one
\* had written part of when it was aborted
C16_Witness ==
  /\ Len(subs) = 2 /\ Sequential /\ SameWorkOrder
  /\ subs[1].pc = "threw" /\ subs[1].newSheetId # 0 /\ Len(subs[1].items) = 2
  /\ subs[2].pc = "done" /\ subs[2].deleted = {1} /\ Len(subs[2].items) = 1
  /\ subs[1].error = "Permission denied. Make sure you have Editor access to the spreadsheet."

\* C17 as stated: a commit that starts while another commit for the same
\* sheet name is in progress fails with WriteConflict and leaves that
\* commit's sheet alone: it deletes no sheet, adds none and never succeeds.
C17_WriteConflict ==
  \A q \in DOMAIN subs : \A p \in subs[q].during :
     subs[p].newSheetName = subs[q].newSheetName =>
       /\ subs[q].deleted = {}
       /\ subs[q].newSheetId = 0
       /\ subs[q].pc # "done"
       /\ subs[q].pc = "threw" =>
            subs[q].error \in {"WriteConflict", CatchMessage(PermissionError)}

\* C19 as stated: submissions that run one after the other never delete
\* the sheet added for a different work-order number, and the sheet of a
\* submission shows the work-order number of that submission only.
C19_OneSheetPerWorkOrder ==
  Sequential =>
    /\ \A q \in DOMAIN subs : \A p \in subs[q].deleted :
         subs[p].raw = subs[q].raw
    /\ \A p, q \in DOMAIN subs :
         (subs[p].raw # subs[q].raw /\ subs[p].newSheetId # 0 /\ subs[q].newSheetId # 0)
            => subs[p].newSheetName # subs[q].newSheetName

\* what is wrong with the call, "" when every precondition holds
PreconditionFailure ==
  CASE env.data = Null -> "No data provided to writeToSheet"
    [] env.structuredData # Obj -> "Invalid structuredData: must be an object"
    [] env.GOOGLE_SHEETS_ID = Undefined ->
         "Missing GOOGLE_SHEETS_ID environment variable"
    [] env.accessToken = Undefined ->
         "Failed to write to sheet: No access token provided. User must be logged in."
    [] ~env.spreadsheetExists ->
         "Spreadsheet not found. Check that GOOGLE_SHEETS_ID is correct."
    [] OTHER -> ""

\* C20: when a precondition fails (no data, structuredData no object, no
\* GOOGLE_SHEETS_ID, no access token, spreadsheet not found) writeToSheet
\* ends by throwing one error that names the failure, and up to then no
\* sheet was deleted or added, no cell, merge or row size written and no
\* asset handed to Drive; the only call it may have made is the read of
\* the spreadsheet (whose rejection for another reason, such as an expired
\* token, is reported with that reason's message instead).
C20_FailFastOnPrecondition ==
  PreconditionFailure # "" =>
    /\ pc \in {"start", "auth", "findSheet", "threw"}
    /\ pc = "threw" <=> error # ""
    /\ pc = "threw" =>
         \/ error = PreconditionFailure
         \/ /\ PreconditionFailure = CatchMessage(NotFoundError)
            /\ calls = <<>>
            /\ \E err \in ApiErrors : error = CatchMessage(err)
    /\ \A k \in 1..Len(calls) : calls[k] = "get"
    /\ Len(calls) <= 1
    /\ ~newSheet
    /\ values = <<>> /\ merges = {} /\ heights = <<>>
    /\ upc = "idle" /\ driveLog = <<>> /\ sketchOutcome = Null
    /\ sketchResult = Null /\ nextFileId = 1 /\ photoResults = <<>>

C20_Witness ==
  /\ pc = "threw" /\ ~env.spreadsheetExists /\ calls = << "get" >>
  /\ error = "Spreadsheet not found. Check that GOOGLE_SHEETS_ID is correct."
  /\ oldSheet /\ sketch /\ Len(photos) = 2 /\ Len(workItemsIn) = 1

\* C21: a submission whose writeToSheet throws leaves the spreadsheet as it
\* found it: the sheet named like the work order that existed before is
\* still there (a deleteSheet was only issued against an existing sheet) and
\* no sheet of this submission, with whatever part of its cells, merges and
\* row sizes, is left behind.
C21_CatastrophicFailureAtomic ==
  pc = "threw" =>
    /\ Called("deleteSheet") => oldSheet
    /\ ~newSheet
    /\ values = <<>> /\ merges = {} /\ heights = <<>>

\* the transfer of the sketch was completed by Drive
SketchUploaded == sketchOutcome # Null /\ sketchOutcome.transfer = "ok"

\* the file id Drive gave the j-th completed photo: ids are handed out in
\* order of completion, the sketch first
PhotoFileId(j) == (IF SketchUploaded THEN 1 ELSE 0) + j

\* C22: no failure of an asset upload makes writeToSheet throw, and when
\* every sheet write succeeds it returns success with the URL of the sheet,
\* the URL of the sketch or null when its upload failed or there was none,
\* and one photo URL entry, in input order, for exactly the photos Drive
\* completed, each with the URL, file name and caption of that photo.
C22_AssetFailuresDoNotFail ==
  /\ [][(pc \in {"sketch", "sketchPending", "photos", "photosPending"})
          => pc' # "threw"]_vars
  /\ [](pc = "done" =>
         LET r == writeToSheetResult
             ok == OkIndices
         IN /\ r.success
            /\ r.sheetUrl = "https://docs.google.com/spreadsheets/d/1AbC/edit#gid=1"
            /\ r.sketchUrl = IF SketchUploaded THEN DirectUrl(1) ELSE Null
            /\ Len(r.photoUrls) = Len(ok)
            /\ \A j \in 1..Len(ok) :
                 /\ r.photoUrls[j].url = DirectUrl(PhotoFileId(j))
                 /\ r.photoUrls[j].fileName
                      = PhotoFileName(WorkOrder, ok[j], photos[ok[j]])
                 /\ r.photoUrls[j].caption
                      = IF Truthy(photos[ok[j]].caption)
                        THEN photos[ok[j]].caption ELSE Str(""))

C22_Witness ==
  /\ pc = "done" /\ upc = "returned" /\ Len(photos) = 2
  /\ sketchOutcome # Null /\ sketchOutcome.transfer = "error"
  /\ driveLog[1].kind = "never" /\ driveLog[2].kind = "ok"

\* every asset of the submission has been dealt with by the uploader
UploadsFinished ==
  /\ sketch => sketchOutcome # Null
  /\ Len(photos) > 0 => upc \in {"returned", "threw"}

\* C25: the uploads of the sketch and of the photos have all finished before
\* the first mutating call on the spreadsheet, the deleteSheet of the old
\* sheet or the addSheet of the new one, is issued.
C25_UploadsBeforeSheetMutation ==
  (Called("deleteSheet") \/ Called("addSheet")) => UploadsFinished

\* what the sheet holds is part of what submission p writes on its own
OnlyFrom(sheet, p) ==
  LET own == SheetOf(subs[p].raw, subs[p].items)
  IN /\ \A c \in DOMAIN sheet.values :
          c \in DOMAIN own.values /\ sheet.values[c] = own.values[c]
     /\ sheet.merges \subseteq own.merges
     /\ \A r \in DOMAIN sheet.heights :
          r \in DOMAIN own.heights /\ sheet.heights[r] = own.heights[r]

AllEnded == subs # <<>> /\ \A p \in DOMAIN subs : ~InProgress(p)

\* C26: once submissions of one work-order number that ran concurrently have
\* all ended, a sheet of that name holds cells, merges and row sizes written
\* by one of them only, and a submission that reported success is the one
\* whose complete content the sheet of that name holds.
C26_ConcurrentSubmissionsDoNotMix ==
  (AllEnded /\ SameWorkOrder /\ \E q \in DOMAIN subs : subs[q].overlapped) =>
    /\ \A id \in DOMAIN book : \E p \in DOMAIN subs : OnlyFrom(book[id], p)
    /\ \A p \in DOMAIN subs :
         subs[p].pc = "done" =>
           /\ SheetTitled(book, subs[p].newSheetName) # 0
           /\ LET sheet == book[SheetTitled(book, subs[p].newSheetName)]
                  own == SheetOf(subs[p].raw, subs[p].items)
              IN /\ sheet.values = own.values
                 /\ sheet.merges = own.merges
                 /\ sheet.heights = own.heights

\* submission p, running on its own, takes a step from position at
StepOf(p, at) ==
  /\ Len(subs') = Len(subs)
  /\ ~subs[p].overlapped
  /\ subs[p].pc = at
  /\ subs'[p] # subs[p]

\* C27: when the sheet of the target name exists and its deleteSheet is
\* rejected, the rejection is swallowed and leaves the spreadsheet as it
\* was, the addSheet of the same name that follows is refused, writeToSheet
\* throws the wrapped message of that refusal without having added a sheet,
\* and the spreadsheet, the old sheet with it, is still unchanged.
C27_FailedDeleteKeepsOldSheet ==
  [][\A p \in DOMAIN subs :
       /\ (StepOf(p, "deleteSheet") /\ subs[p].existingSheetId \in DOMAIN book
             /\ subs[p].existingSheetId \in DOMAIN book')
            => (subs'[p].pc = "addSheet" /\ subs'[p].error = "" /\ book' = book)
       /\ (StepOf(p, "addSheet") /\ subs[p].existingSheetId # 0
             /\ subs[p].deleted = {})
            => /\ subs'[p].pc = "threw"
               /\ subs'[p].error =
                    "Failed to write to sheet: A sheet with that name already exists"
               /\ subs'[p].newSheetId = 0
               /\ book' = book
               /\ subs[p].existingSheetId \in DOMAIN book']_vars

\* the second submission ended on the refused addSheet, the complete sheet
\* of the first one is still there
C27_Witness ==
  /\ Len(subs) = 2 /\ Sequential /\ SameWorkOrder
  /\ subs[1].pc = "done" /\ subs[2].pc = "threw"
  /\ subs[2].existingSheetId = subs[1].newSheetId /\ subs[2].deleted = {}
  /\ subs[2].error # CatchMessage(PermissionError)
  /\ subs[2].items # subs[1].items
  /\ book[subs[1].newSheetId].values = SheetOf(subs[1].raw, subs[1].items).values

\* C28: in the finished gallery the notes row under the image of every
\* uploaded photo shows the caption the caller gave for that very photo, or
\* 'Photo k notes:' (k its place in the gallery) when it has none, also
\* when photos of the batch share a file name.
C28_NotesShowOwnCaption ==
  (pc = "done" /\ upc = "returned") =>
     LET ok == OkIndices
         first == totalRowNum(itemCount) + 4
     IN \A j \in 1..Len(ok) :
          /\ <<first + 2 * (j - 1) + 1, 1>> \in DOMAIN values
          /\ values[<<first + 2 * (j - 1) + 1, 1>>]
               = IF Truthy(photos[ok[j]].caption)
                 THEN photos[ok[j]].caption.v
                 ELSE "Photo " \o ToString(j) \o " notes:"

\* an authenticated POST whose structuredData is an object and that carries
\* both scopes
Authenticated(req) ==
  /\ req.method = "POST" /\ req.session # Null
  /\ Truthy(req.session.accessToken)
  /\ req.structuredData.t = "object"
  /\ Truthy(req.englishScope) /\ Truthy(req.spanishScope)

NoWorkItems(req) ==
  ~Truthy(req.structuredData.workItems) \/ req.structuredData.workItems.items = <<>>

NoWorkOrderNumber(req) ==
  req.structuredData.workOrderNumber \in {Undefined, Text(<<>>)}

\* C23: a submission with an empty work-item list or without a work-order
\* number is refused by the submit handler with a 400 whose message names
\* the missing field; writeToSheet is never called for it and the
\* spreadsheet stays as it was.
C23_StructuralFailuresRejected ==
  (api.hpc # "none" /\ Authenticated(api.req)
     /\ (NoWorkItems(api.req) \/ NoWorkOrderNumber(api.req))) =>
    /\ subs = <<>>
    /\ book \in {<<>>, (1 :> EarlierSheet)}
    /\ api.hpc = "responded" =>
         /\ api.res.status = 400
         /\ NoWorkItems(api.req) =>
              api.res.body.error = "At least one work item is required"
         /\ ~NoWorkItems(api.req) =>
              api.res.body.error \notin
                {"structuredData is required", "At least one work item is required",
                 "Both englishScope and spanishScope are required"}

\* the work orders whose batches have resolved their folder so far
Resolved == {drive.files[k].workOrder : k \in DOMAIN drive.files}
                \cup (IF batch.fpc = "upload" THEN {batch.workOrderNumber} ELSE {})

TopFolders == ListFolders(drive.folders, PHOTOS_FOLDER, 0)
                \cap {id \in DOMAIN drive.folders : drive.folders[id].parent = 0}

\* only batches of work order w have run: every folder below another one
\* bears its name and every photo is one of its photos
OnlyBatchesOf(w) ==
  /\ \A id \in DOMAIN drive.folders :
       drive.folders[id].parent # 0 => drive.folders[id].name = w
  /\ \A k \in DOMAIN drive.files : drive.files[k].workOrder = w
  /\ batch.fpc # "idle" => batch.workOrderNumber = w

\* C24: after any number of batches run one after the other for the same
\* work order, there is at most one photos parent folder and at most one
\* folder of the work order's name under it; once a batch has resolved its
\* folder there is exactly one of each, and every photo of the work order,
\* the running batch's included, lies in that one folder.
C24_FolderResolutionIdempotent ==
  \A w \in FolderWorkOrders :
    OnlyBatchesOf(w) =>
      /\ Cardinality(TopFolders) <= 1
      /\ \A top \in TopFolders :
           Cardinality(ListFolders(drive.folders, w, top)) <= 1
      /\ w \in Resolved =>
           /\ Cardinality(TopFolders) = 1
           /\ \A top \in TopFolders :
                /\ Cardinality(ListFolders(drive.folders, w, top)) = 1
                /\ \A k \in DOMAIN drive.files :
                     drive.files[k].folder \in ListFolders(drive.folders, w, top)
                /\ batch.fpc = "upload" =>
                     batch.workOrderFolderId \in ListFolders(drive.folders, w, top)

\* the workflow flags of the page stand in their order
WorkflowOrdered ==
  /\ home.isSubmitted => home.scopesGenerated
  /\ home.scopesGenerated => home.isComplete
  /\ home.currentStep = "submitted" <=> home.isSubmitted

\* a request to /api/submit starts only from generated scopes, with nothing
\* processing and nothing submitted
SubmitStartsGated ==
  (fetching.kind # "submit" /\ fetching'.kind = "submit") =>
     /\ home.scopesGenerated /\ ~home.isProcessing /\ ~home.isSubmitted
     /\ fetching.kind = "none"

\* the continuation of a settled request leaves isProcessing false
ProcessingEnds ==
  (fetching.kind # "none" /\ fetching'.kind = "none") => ~home'.isProcessing

\* the step of handleReset: the only one that takes isSubmitted back
ResetStep == home.isSubmitted /\ ~home'.isSubmitted

\* C29 as stated: the flags stand in their order, a submit starts only when
\* it may, every started handler sets isProcessing back to false when its
\* request settles, and handleReset leaves every field of the page at its
\* initial value.
C29_WorkflowStateMachine ==
  /\ []WorkflowOrdered
  /\ [][SubmitStartsGated /\ ProcessingEnds]_vars
  /\ (home.isProcessing ~> ~home.isProcessing)
  /\ [][ResetStep => home' = initialHome]_vars

\* C29 amended: as C29, but handleReset leaves the fields of the assessment
\* at their initial values and keeps enableTTS and inputLanguage as the user
\* has set them.
C29_WorkflowStateMachine_Amended ==
  /\ []WorkflowOrdered
  /\ [][SubmitStartsGated /\ ProcessingEnds]_vars
  /\ (home.isProcessing ~> ~home.isProcessing)
  /\ [][ResetStep => home' = [initialHome EXCEPT
                                !.enableTTS = home.enableTTS,
                                !.inputLanguage = home.inputLanguage]]_vars

\* an assessment is submitted, its request settled, with the voice off and
\* Spanish input: handleReset is the one handler left to start
C29_Witness ==
  /\ home.isSubmitted /\ ~home.isProcessing /\ fetching = NoFetch
  /\ home.currentStep = "submitted"
  /\ ~home.enableTTS /\ home.inputLanguage = "es"
  /\ home.sketch = "drawing" /\ home.photos # <<>>

\* the debounce timers that have not fired yet
PendingTimers ==
  (IF preview.debounceRef = NoTimer THEN {} ELSE {preview.debounceRef})
  \cup {[text |-> r.text, targetLanguage |-> r.targetLanguage] :
          r \in {q \in requests : q.stage = "timer"}}

\* a step that puts the result of a translation into scope f
Applies(f) == home'[f] # home[f] /\ home'[f].by = "translate-scope"

\* no result replaces a text the user typed after the text it translates
NoLateOverwrite ==
  \A f \in {"englishScope", "spanishScope"} :
    (Applies(f) /\ home[f].by = "user") => home[f].n < home'[f].n

\* no result is applied once the assessment is submitted
NoneAfterSubmission ==
  \A f \in {"englishScope", "spanishScope"} : Applies(f) => ~home.isSubmitted

\* C30: the result of an auto-translation never replaces a text the user
\* typed after the translated text, at most one debounce timer is pending
\* at a time, and no translation result is applied once the assessment has
\* been submitted.
C30_TranslationNeverOverwritesNewerText ==
  /\ [][NoLateOverwrite /\ NoneAfterSubmission]_vars
  /\ [](Cardinality(PendingTimers) <= 1)

\* the three parts of C30, each on its own
C30_NoLateOverwrite == [][NoLateOverwrite]_vars
C30_NoneAfterSubmission == [][NoneAfterSubmission]_vars
C30_OnePending == Cardinality(PendingTimers) <= 1

====
